---------------------------- MODULE Spec2Model ----------------------------
(***************************************************************************)
(* TaskForge: the Todo aggregate (package domain), the Postgres            *)
(* repository with its optimistic version check (package postgres) and    *)
(* the UpdateTodo handler with its field-mask applier (package app).       *)
(*                                                                         *)
(* Strings whose only examined property is their length (title,            *)
(* description) are modelled by that length: "" is 0.  Identifiers (ids,   *)
(* users, tenants, tags) are TLA+ strings, "" being Go's empty string.     *)
(* A nil pointer (to a time.Time or a string) is the sequence <<>>, a      *)
(* non-nil one the one-element sequence of the value pointed to.           *)
(***************************************************************************)
EXTENDS Integers, Sequences, FiniteSets, TLC

VARIABLES
    now,    \* the value time.Now().UTC() returns, a logical clock
    agg,    \* the aggregate a caller holds, the last call made on it and its result
    rows,   \* table todos: the row of each id, or NoRow
    last,   \* the repository call being answered and its result
    callers \* per concurrent caller: the request it is in, the Todo it holds

vars == <<now, agg, rows, last, callers>>

---------------------------------------------------------------------------
(* Bounds of the model *)

MaxTime == 1          \* the clock runs over 0..MaxTime
MaxAggVersion == 3    \* no mutator call is followed that would pass this version
MaxVersion == 3       \* no write is followed that would raise a stored version past it

---------------------------------------------------------------------------
(* package domain: statuses, priorities, errors *)

StatusPending == 1
StatusInProgress == 2
StatusCompleted == 3
StatusArchived == 4

TodoStatus == {StatusPending, StatusInProgress, StatusCompleted, StatusArchived}

PriorityLow == 1
PriorityMedium == 2
PriorityHigh == 3
PriorityCritical == 4

OK == "nil"
ErrEmptyTitle == "title cannot be empty"
ErrTitleTooLong == "title exceeds 200 characters"
ErrDescriptionTooLong == "description exceeds 2000 characters"
ErrInvalidOwnerId == "owner ID is required"
ErrInvalidTenantID == "tenant ID is required"
ErrInvalidPriority == "invalid priority value"
ErrDueDateInPast == "due date cannot be in the past"
ErrTooManyTags == "maximum 20 tags allowed"
ErrInvalidStatusTransition == "invalid status transition"
ErrTodoNotFound == "todo not found"
ErrVersionMismatch == "version mismatch - concurrent update detected"

MaxTitleLen == 200
MaxDescriptionLen == 2000
MaxTags == 20

\* a nil *Todo
NoTodo == [nil |-> TRUE]

---------------------------------------------------------------------------
(* package domain: the Todo aggregate *)

\* validateTitle without its length check
validateTitleNoLimit(title) ==
    IF title = 0 THEN ErrEmptyTitle ELSE OK

validateTitle(title) ==
    IF title = 0 THEN ErrEmptyTitle
    ELSE IF title > MaxTitleLen THEN ErrTitleTooLong
    ELSE OK

isValidPriority(p) == p >= PriorityLow /\ p <= PriorityCritical

\* the transition table without the way out of Archived
validTransitionsArchivedFinal ==
    [from \in TodoStatus |->
        CASE from = StatusPending    -> <<StatusInProgress, StatusArchived>>
          [] from = StatusInProgress -> <<StatusArchived, StatusCompleted, StatusPending>>
          [] from = StatusCompleted  -> <<StatusArchived, StatusPending>>
          [] from = StatusArchived   -> <<>>]

validTransitions ==
    [from \in TodoStatus |->
        CASE from = StatusPending    -> <<StatusInProgress, StatusArchived>>
          [] from = StatusInProgress -> <<StatusArchived, StatusCompleted, StatusPending>>
          [] from = StatusCompleted  -> <<StatusArchived, StatusPending>>
          [] from = StatusArchived   -> <<StatusPending>>]

\* isValidStatusTransition rejecting only the self-transition
isValidStatusTransitionAnyOther(from, to) == from # to

isValidStatusTransition(from, to) ==
    IF from \notin DOMAIN validTransitions THEN FALSE
    ELSE \E i \in 1..Len(validTransitions[from]) : validTransitions[from][i] = to

\* NewTodo that leaves Version at Go's zero value
NewTodoZeroVersion(title, description, ownerID, tenantID, priority, id) ==
    IF validateTitle(title) # OK THEN [todo |-> NoTodo, err |-> validateTitle(title)]
    ELSE IF ownerID = "" THEN [todo |-> NoTodo, err |-> ErrInvalidOwnerId]
    ELSE IF tenantID = "" THEN [todo |-> NoTodo, err |-> ErrInvalidTenantID]
    ELSE [todo |-> [ID |-> id, Title |-> title, Description |-> description,
                    Status |-> StatusPending, Priority |-> priority, DueDate |-> <<>>,
                    Tags |-> <<>>, OwnerID |-> ownerID, AssignedTo |-> <<>>,
                    TenantID |-> tenantID, CreatedAt |-> now, UpdatedAt |-> now,
                    Version |-> 0],
          err |-> OK]

\* id is the value uuid.New().String() returns
NewTodo(title, description, ownerID, tenantID, priority, id) ==
    IF validateTitle(title) # OK THEN [todo |-> NoTodo, err |-> validateTitle(title)]
    ELSE IF ownerID = "" THEN [todo |-> NoTodo, err |-> ErrInvalidOwnerId]
    ELSE IF tenantID = "" THEN [todo |-> NoTodo, err |-> ErrInvalidTenantID]
    ELSE [todo |-> [ID          |-> id,
                    Title       |-> title,
                    Description |-> description,
                    Status      |-> StatusPending,
                    Priority    |-> priority,
                    DueDate     |-> <<>>,
                    Tags        |-> <<>>,
                    OwnerID     |-> ownerID,
                    AssignedTo  |-> <<>>,
                    TenantID    |-> tenantID,
                    CreatedAt   |-> now,
                    UpdatedAt   |-> now,
                    Version     |-> 1],
          err |-> OK]

UpdateTitle(t, title) ==
    IF validateTitle(title) # OK THEN [todo |-> t, err |-> validateTitle(title)]
    ELSE [todo |-> [t EXCEPT !.Title = title, !.UpdatedAt = now, !.Version = @ + 1],
          err |-> OK]

UpdateDescription(t, description) ==
    IF description > MaxDescriptionLen THEN [todo |-> t, err |-> ErrDescriptionTooLong]
    ELSE [todo |-> [t EXCEPT !.Description = description, !.UpdatedAt = now,
                             !.Version = @ + 1],
          err |-> OK]

UpdateStatus(t, newStatus) ==
    IF ~isValidStatusTransition(t.Status, newStatus)
    THEN [todo |-> t, err |-> ErrInvalidStatusTransition]
    ELSE [todo |-> [t EXCEPT !.Status = newStatus, !.UpdatedAt = now, !.Version = @ + 1],
          err |-> OK]

UpdatePriority(t, priority) ==
    IF ~isValidPriority(priority) THEN [todo |-> t, err |-> ErrInvalidPriority]
    ELSE [todo |-> [t EXCEPT !.Priority = priority, !.UpdatedAt = now, !.Version = @ + 1],
          err |-> OK]

\* SetDueDate that also refuses the current instant
SetDueDateRejectsNow(t, dueDate) ==
    IF dueDate # <<>> /\ dueDate[1] <= now THEN [todo |-> t, err |-> ErrDueDateInPast]
    ELSE [todo |-> [t EXCEPT !.DueDate = dueDate, !.UpdatedAt = now, !.Version = @ + 1],
          err |-> OK]

SetDueDate(t, dueDate) ==
    IF dueDate # <<>> /\ dueDate[1] < now THEN [todo |-> t, err |-> ErrDueDateInPast]
    ELSE [todo |-> [t EXCEPT !.DueDate = dueDate, !.UpdatedAt = now, !.Version = @ + 1],
          err |-> OK]

\* AssignTo that leaves the version as it was
AssignToKeepsVersion(t, userID) ==
    [todo |-> [t EXCEPT !.AssignedTo = userID, !.UpdatedAt = now], err |-> OK]

AssignTo(t, userID) ==
    [todo |-> [t EXCEPT !.AssignedTo = userID, !.UpdatedAt = now, !.Version = @ + 1],
     err |-> OK]

\* AddTags that appends first and checks the limit afterwards
AddTagsAppendFirst(t, tags) ==
    IF Len(t.Tags \o tags) > MaxTags
    THEN [todo |-> [t EXCEPT !.Tags = @ \o tags], err |-> ErrTooManyTags]
    ELSE [todo |-> [t EXCEPT !.Tags = @ \o tags, !.UpdatedAt = now, !.Version = @ + 1],
          err |-> OK]

AddTags(t, tags) ==
    IF Len(t.Tags) + Len(tags) > MaxTags THEN [todo |-> t, err |-> ErrTooManyTags]
    ELSE [todo |-> [t EXCEPT !.Tags = @ \o tags, !.UpdatedAt = now, !.Version = @ + 1],
          err |-> OK]

---------------------------------------------------------------------------
(* The aggregate under call: a caller constructs a Todo and calls its      *)
(* mutators one after the other.  agg.op and agg.arg name the last call.   *)

NoArg == [title |-> 0, description |-> 0, ownerID |-> "", tenantID |-> "",
          priority |-> 0, status |-> 0, tags |-> <<>>, dueDate |-> <<>>,
          userID |-> <<>>]

Rep(n, x) == [i \in 1..n |-> x]

TitleInputs == {0, 1, MaxTitleLen, MaxTitleLen + 1}
OwnerInputs == {"", "u1"}
TenantInputs == {"", "t1"}
StatusInputs == TodoStatus
TagInputs == {<<>>, <<"a">>, <<"b", "a", "b">>, Rep(MaxTags - 1, "x"), Rep(MaxTags + 1, "x")}

Tick ==
    /\ now < MaxTime
    /\ now' = now + 1
    /\ UNCHANGED <<agg, rows, last, callers>>

CallNewTodo(title, ownerID, tenantID) ==
    LET r == NewTodo(title, 0, ownerID, tenantID, PriorityMedium, "id1") IN
    /\ agg' = [todo |-> r.todo, op |-> "NewTodo",
               arg  |-> [NoArg EXCEPT !.title = title, !.ownerID = ownerID,
                                      !.tenantID = tenantID, !.priority = PriorityMedium],
               err  |-> r.err]
    /\ UNCHANGED <<now, rows, last, callers>>

CallUpdateStatus(newStatus) ==
    LET r == UpdateStatus(agg.todo, newStatus) IN
    /\ agg.todo # NoTodo
    /\ r.todo.Version <= MaxAggVersion
    /\ agg' = [todo |-> r.todo, op |-> "UpdateStatus",
               arg  |-> [NoArg EXCEPT !.status = newStatus], err |-> r.err]
    /\ UNCHANGED <<now, rows, last, callers>>

CallAddTags(tags) ==
    LET r == AddTags(agg.todo, tags) IN
    /\ agg.todo # NoTodo
    /\ r.todo.Version <= MaxAggVersion
    /\ agg' = [todo |-> r.todo, op |-> "AddTags",
               arg  |-> [NoArg EXCEPT !.tags = tags], err |-> r.err]
    /\ UNCHANGED <<now, rows, last, callers>>

InitAgg ==
    /\ now = 0
    /\ agg = [todo |-> NoTodo, op |-> "none", arg |-> NoArg, err |-> OK]
    /\ rows = [id \in {"id1", "id2"} |-> [absent |-> TRUE]]
    /\ last = [op |-> "none", id |-> "", err |-> OK]
    /\ callers = <<>>

NextAgg ==
    \/ Tick
    \/ \E title \in TitleInputs, ownerID \in OwnerInputs, tenantID \in TenantInputs :
          CallNewTodo(title, ownerID, tenantID)
    \/ \E newStatus \in StatusInputs : CallUpdateStatus(newStatus)
    \/ \E tags \in TagInputs : CallAddTags(tags)

SpecAgg == InitAgg /\ [][NextAgg]_vars

---------------------------------------------------------------------------
(* The aggregate under all seven mutators, constructed with descriptions   *)
(* up to and past the limit UpdateDescription enforces.                    *)

DescriptionInputs == {0, MaxDescriptionLen, MaxDescriptionLen + 1}
PriorityInputs == {PriorityLow - 1, PriorityHigh, PriorityCritical + 1}
DueDateInputs == {<<>>, <<0>>, <<MaxTime>>}
AssigneeInputs == {<<>>, <<"u2">>}

CallNewTodoWith(description) ==
    LET r == NewTodo(1, description, "u1", "t1", PriorityMedium, "id1") IN
    /\ agg' = [todo |-> r.todo, op |-> "NewTodo",
               arg  |-> [NoArg EXCEPT !.title = 1, !.description = description,
                                      !.ownerID = "u1", !.tenantID = "t1",
                                      !.priority = PriorityMedium],
               err  |-> r.err]
    /\ UNCHANGED <<now, rows, last, callers>>

CallUpdateTitle(title) ==
    LET r == UpdateTitle(agg.todo, title) IN
    /\ agg.todo # NoTodo
    /\ r.todo.Version <= MaxAggVersion
    /\ agg' = [todo |-> r.todo, op |-> "UpdateTitle",
               arg  |-> [NoArg EXCEPT !.title = title], err |-> r.err]
    /\ UNCHANGED <<now, rows, last, callers>>

CallUpdateDescription(description) ==
    LET r == UpdateDescription(agg.todo, description) IN
    /\ agg.todo # NoTodo
    /\ r.todo.Version <= MaxAggVersion
    /\ agg' = [todo |-> r.todo, op |-> "UpdateDescription",
               arg  |-> [NoArg EXCEPT !.description = description], err |-> r.err]
    /\ UNCHANGED <<now, rows, last, callers>>

CallUpdatePriority(priority) ==
    LET r == UpdatePriority(agg.todo, priority) IN
    /\ agg.todo # NoTodo
    /\ r.todo.Version <= MaxAggVersion
    /\ agg' = [todo |-> r.todo, op |-> "UpdatePriority",
               arg  |-> [NoArg EXCEPT !.priority = priority], err |-> r.err]
    /\ UNCHANGED <<now, rows, last, callers>>

CallSetDueDate(dueDate) ==
    LET r == SetDueDate(agg.todo, dueDate) IN
    /\ agg.todo # NoTodo
    /\ r.todo.Version <= MaxAggVersion
    /\ agg' = [todo |-> r.todo, op |-> "SetDueDate",
               arg  |-> [NoArg EXCEPT !.dueDate = dueDate], err |-> r.err]
    /\ UNCHANGED <<now, rows, last, callers>>

CallAssignTo(userID) ==
    LET r == AssignTo(agg.todo, userID) IN
    /\ agg.todo # NoTodo
    /\ r.todo.Version <= MaxAggVersion
    /\ agg' = [todo |-> r.todo, op |-> "AssignTo",
               arg  |-> [NoArg EXCEPT !.userID = userID], err |-> r.err]
    /\ UNCHANGED <<now, rows, last, callers>>

NextMut ==
    \/ Tick
    \/ \E description \in DescriptionInputs : CallNewTodoWith(description)
    \/ \E title \in TitleInputs : CallUpdateTitle(title)
    \/ \E description \in DescriptionInputs : CallUpdateDescription(description)
    \/ \E newStatus \in StatusInputs : CallUpdateStatus(newStatus)
    \/ \E priority \in PriorityInputs : CallUpdatePriority(priority)
    \/ \E dueDate \in DueDateInputs : CallSetDueDate(dueDate)
    \/ \E userID \in AssigneeInputs : CallAssignTo(userID)
    \/ \E tags \in {<<"a">>, Rep(MaxTags, "x")} : CallAddTags(tags)

SpecMut == InitAgg /\ [][NextMut]_vars


---------------------------------------------------------------------------
(* package postgres: table todos and the repository.  Of the schema the   *)
(* model keeps the primary key on id, the deleted_at column and the       *)
(* constraints on title, status and priority.                             *)

IDs == {"id1", "id2"}
Tenants == {"t1", "t2"}

\* no row with that id
NoRow == [absent |-> TRUE]

\* the columns the repository reads back into a Todo
ScanTodo(row) ==
    [ID |-> row.ID, Title |-> row.Title, Description |-> row.Description,
     Status |-> row.Status, Priority |-> row.Priority, DueDate |-> row.DueDate,
     Tags |-> row.Tags, OwnerID |-> row.OwnerID, AssignedTo |-> row.AssignedTo,
     TenantID |-> row.TenantID, CreatedAt |-> row.CreatedAt,
     UpdatedAt |-> row.UpdatedAt, Version |-> row.Version]

\* the row INSERT stores for a Todo: deleted_at is NULL
InsertedRow(todo) ==
    [ID |-> todo.ID, Title |-> todo.Title, Description |-> todo.Description,
     Status |-> todo.Status, Priority |-> todo.Priority, DueDate |-> todo.DueDate,
     Tags |-> todo.Tags, OwnerID |-> todo.OwnerID, AssignedTo |-> todo.AssignedTo,
     TenantID |-> todo.TenantID, CreatedAt |-> todo.CreatedAt,
     UpdatedAt |-> todo.UpdatedAt, Version |-> todo.Version, DeletedAt |-> <<>>]

ErrCreateFailed == "failed to create todo"
ErrBatchInsertFailed == "failed to insert todo"

\* the WHERE clause without deleted_at IS NULL
LiveRowDeletedToo(t, id, tenantID) ==
    /\ id \in DOMAIN t
    /\ t[id] # NoRow
    /\ t[id].TenantID = tenantID

\* the WHERE clause without its tenant_id conjunct
LiveRowAnyTenant(t, id, tenantID) ==
    /\ id \in DOMAIN t
    /\ t[id] # NoRow
    /\ t[id].DeletedAt = <<>>

\* WHERE id = $1 AND tenant_id = $2 AND deleted_at IS NULL, on table t
LiveRow(t, id, tenantID) ==
    /\ id \in DOMAIN t
    /\ t[id] # NoRow
    /\ t[id].TenantID = tenantID
    /\ t[id].DeletedAt = <<>>

\* the WHERE clause without its version conjunct
VersionedRowAnyVersion(t, id, tenantID, version) == LiveRow(t, id, tenantID)

\* WHERE id = $9 AND tenant_id = $10 AND version = $11 AND deleted_at IS NULL
VersionedRow(t, id, tenantID, version) ==
    LiveRow(t, id, tenantID) /\ t[id].Version = version

\* title VARCHAR(200) with CHECK (LENGTH(title) > 0), CHECK (status BETWEEN 1
\* AND 4), CHECK (priority BETWEEN 1 AND 4)
WithinConstraints(todo) ==
    /\ todo.Title > 0 /\ todo.Title <= 200
    /\ todo.Status >= 1 /\ todo.Status <= 4
    /\ todo.Priority >= 1 /\ todo.Priority <= 4

\* INSERT INTO todos: a constraint refuses the values, or the primary key
\* refuses an id that has a row, deleted or not
Insert(t, todo) ==
    IF ~WithinConstraints(todo) THEN [rows |-> t, err |-> "check violation"]
    ELSE IF todo.ID \in DOMAIN t /\ t[todo.ID] = NoRow
    THEN [rows |-> [t EXCEPT ![todo.ID] = InsertedRow(todo)], err |-> OK]
    ELSE [rows |-> t, err |-> "duplicate key"]

CreateOn(t, todo) ==
    LET r == Insert(t, todo) IN
    IF r.err # OK THEN [rows |-> t, err |-> ErrCreateFailed]
    ELSE [rows |-> r.rows, err |-> OK]

RepoCreate(todo) == CreateOn(rows, todo)

\* the statements of the repository against a table t; each returns the table
\* after it and what the method returns

GetByIDOn(t, id, tenantID) ==
    IF LiveRow(t, id, tenantID)
    THEN [todo |-> ScanTodo(t[id]), err |-> OK]
    ELSE [todo |-> NoTodo, err |-> ErrTodoNotFound]

RepoGetByID(id, tenantID) == GetByIDOn(rows, id, tenantID)

\* Update whose WHERE clause has no version conjunct
RepoUpdateNoVersionCheck(todo) ==
    IF LiveRow(rows, todo.ID, todo.TenantID)
    THEN [rows |-> [rows EXCEPT ![todo.ID] =
                      [@ EXCEPT !.Title = todo.Title,
                                !.Description = todo.Description,
                                !.Status = todo.Status,
                                !.Priority = todo.Priority,
                                !.DueDate = todo.DueDate,
                                !.Tags = todo.Tags,
                                !.AssignedTo = todo.AssignedTo,
                                !.UpdatedAt = now,
                                !.Version = @ + 1]],
          err |-> OK]
    ELSE [rows |-> rows, err |-> ErrVersionMismatch]

\* Update that also writes the owner_id and created_at of the Todo submitted
RepoUpdateWritesOwner(todo) ==
    IF VersionedRow(rows, todo.ID, todo.TenantID, todo.Version)
    THEN [rows |-> [rows EXCEPT ![todo.ID] =
                      [@ EXCEPT !.Status = todo.Status, !.OwnerID = todo.OwnerID,
                                !.CreatedAt = todo.CreatedAt, !.Version = @ + 1]],
          err |-> OK]
    ELSE [rows |-> rows, err |-> ErrVersionMismatch]

UpdateOn(t, todo) ==
    IF VersionedRow(t, todo.ID, todo.TenantID, todo.Version)
    THEN [rows |-> [t EXCEPT ![todo.ID] =
                      [@ EXCEPT !.Title = todo.Title,
                                !.Description = todo.Description,
                                !.Status = todo.Status,
                                !.Priority = todo.Priority,
                                !.DueDate = todo.DueDate,
                                !.Tags = todo.Tags,
                                !.AssignedTo = todo.AssignedTo,
                                !.UpdatedAt = now,
                                !.Version = @ + 1]],
          err |-> OK]
    ELSE [rows |-> t, err |-> ErrVersionMismatch]

RepoUpdate(todo) == UpdateOn(rows, todo)

\* a Delete that counts as a write: it raises the version as Update does
DeleteOnRaisesVersion(t, id, tenantID) ==
    IF LiveRow(t, id, tenantID)
    THEN [rows |-> [t EXCEPT ![id] = [@ EXCEPT !.DeletedAt = <<now>>,
                                               !.UpdatedAt = now,
                                               !.Version = @ + 1]],
          err |-> OK]
    ELSE [rows |-> t, err |-> ErrTodoNotFound]

DeleteOn(t, id, tenantID) ==
    IF LiveRow(t, id, tenantID)
    THEN [rows |-> [t EXCEPT ![id] = [@ EXCEPT !.DeletedAt = <<now>>,
                                               !.UpdatedAt = now]],
          err |-> OK]
    ELSE [rows |-> t, err |-> ErrTodoNotFound]

RepoDelete(id, tenantID) == DeleteOn(rows, id, tenantID)

\* UpdateStatus that leaves the version column alone
RepoUpdateStatusKeepsVersion(id, tenantID, status, version) ==
    IF VersionedRow(rows, id, tenantID, version)
    THEN LET row == [rows[id] EXCEPT !.Status = status, !.UpdatedAt = now]
         IN [rows |-> [rows EXCEPT ![id] = row], todo |-> ScanTodo(row), err |-> OK]
    ELSE [rows |-> rows, todo |-> NoTodo, err |-> ErrVersionMismatch]

\* UpdateStatus that returns the row as it was before the statement
UpdateStatusOnReturningOld(t, id, tenantID, status, version) ==
    IF VersionedRow(t, id, tenantID, version)
    THEN LET row == [t[id] EXCEPT !.Status = status, !.UpdatedAt = now,
                                  !.Version = @ + 1]
         IN [rows |-> [t EXCEPT ![id] = row], todo |-> ScanTodo(t[id]), err |-> OK]
    ELSE [rows |-> t, todo |-> NoTodo, err |-> ErrVersionMismatch]

UpdateStatusOn(t, id, tenantID, status, version) ==
    IF VersionedRow(t, id, tenantID, version)
    THEN LET row == [t[id] EXCEPT !.Status = status, !.UpdatedAt = now,
                                  !.Version = @ + 1]
         IN [rows |-> [t EXCEPT ![id] = row], todo |-> ScanTodo(row), err |-> OK]
    ELSE [rows |-> t, todo |-> NoTodo, err |-> ErrVersionMismatch]

RepoUpdateStatus(id, tenantID, status, version) ==
    UpdateStatusOn(rows, id, tenantID, status, version)

\* the statements of the transaction, todos[i..] on table t: the first failure
\* returns, and the deferred Rollback leaves the table as it was before the call
RECURSIVE BatchInsert(_, _, _)
BatchInsert(t, todos, i) ==
    IF i > Len(todos) THEN [rows |-> t, err |-> OK]
    ELSE LET r == Insert(t, todos[i]) IN
         IF r.err # OK THEN [rows |-> rows, err |-> ErrBatchInsertFailed]
         ELSE BatchInsert(r.rows, todos, i + 1)

RepoBatchCreate(todos) == BatchInsert(rows, todos, 1)

---------------------------------------------------------------------------
(* List.  A WHERE clause is the sequence of its conjuncts, each naming the  *)
(* columns it reads, its operator and its argument.  A column value is <<>> *)
(* when NULL and <<v>> otherwise.  Titles and descriptions being lengths,   *)
(* a search term is contained in a text when it is not longer than it.      *)

Columns ==
    {"id", "title", "description", "status", "priority", "due_date", "tags",
     "owner_id", "assigned_to", "tenant_id", "created_at", "updated_at",
     "deleted_at", "version"}

ColumnValue(row, col) ==
    CASE col = "id"          -> <<row.ID>>
      [] col = "title"       -> <<row.Title>>
      [] col = "description" -> <<row.Description>>
      [] col = "status"      -> <<row.Status>>
      [] col = "priority"    -> <<row.Priority>>
      [] col = "due_date"    -> row.DueDate
      [] col = "tags"        -> <<row.Tags>>
      [] col = "owner_id"    -> <<row.OwnerID>>
      [] col = "assigned_to" -> row.AssignedTo
      [] col = "tenant_id"   -> <<row.TenantID>>
      [] col = "created_at"  -> <<row.CreatedAt>>
      [] col = "updated_at"  -> <<row.UpdatedAt>>
      [] col = "deleted_at"  -> row.DeletedAt
      [] col = "version"     -> <<row.Version>>

Cond(cols, op, arg) == [cols |-> cols, op |-> op, arg |-> arg]

buildWhereClause(filter) ==
    <<Cond(<<"tenant_id">>, "=", filter.TenantID), Cond(<<"delete_at">>, "IS NULL", <<>>)>>
    \o (IF filter.OwnerID # <<>>
        THEN <<Cond(<<"owner_id">>, "=", filter.OwnerID[1])>> ELSE <<>>)
    \o (IF filter.AssignedTo # <<>>
        THEN <<Cond(<<"assigned_to">>, "=", filter.AssignedTo[1])>> ELSE <<>>)
    \o (IF Len(filter.Statuses) > 0
        THEN <<Cond(<<"status">>, "= ANY", filter.Statuses)>> ELSE <<>>)
    \o (IF Len(filter.Priorities) > 0
        THEN <<Cond(<<"priority">>, "= ANY", filter.Priorities)>> ELSE <<>>)
    \o (IF Len(filter.Tags) > 0
        THEN <<Cond(<<"tags">>, "&&", filter.Tags)>> ELSE <<>>)
    \o (IF filter.DueDateFrom # <<>>
        THEN <<Cond(<<"due_date">>, ">=", filter.DueDateFrom[1])>> ELSE <<>>)
    \o (IF filter.DueDateTo # <<>>
        THEN <<Cond(<<"due_date">>, "<=", filter.DueDateTo[1])>> ELSE <<>>)
    \o (IF filter.SearchQuery # <<>>
        THEN <<Cond(<<"title", "description">>, "ILIKE", filter.SearchQuery[1])>>
        ELSE <<>>)

buildOrderByClause(filter) ==
    [sortBy |-> IF filter.SortBy \in {"created_at", "updated_at", "due_date",
                                      "priority", "status", "title"}
                THEN filter.SortBy ELSE "created_at",
     order  |-> IF filter.SortAscending THEN "ASC" ELSE "DESC"]

\* a conjunct on a row; a comparison with NULL is not true
Satisfies(row, c) ==
    LET v == ColumnValue(row, c.cols[1]) IN
    CASE c.op = "IS NULL" -> v = <<>>
      [] c.op = "="       -> v # <<>> /\ v[1] = c.arg
      [] c.op = "= ANY"   -> v # <<>> /\ \E i \in 1..Len(c.arg) : c.arg[i] = v[1]
      [] c.op = "&&"      -> v # <<>> /\ \E i \in 1..Len(v[1]), j \in 1..Len(c.arg) :
                                          v[1][i] = c.arg[j]
      [] c.op = ">="      -> v # <<>> /\ v[1] >= c.arg
      [] c.op = "<="      -> v # <<>> /\ v[1] <= c.arg
      [] c.op = "ILIKE"   -> \E k \in 1..Len(c.cols) :
                                LET w == ColumnValue(row, c.cols[k]) IN
                                w # <<>> /\ c.arg <= w[1]

\* the statement names a column the table does not have
UndefinedColumn(where) ==
    \E i \in 1..Len(where) :
        \E k \in 1..Len(where[i].cols) : where[i].cols[k] \notin Columns

\* ORDER BY: NULL sorts as larger than every value; rows with equal keys come
\* in some order
ComesBefore(a, b, ob) ==
    LET x == ColumnValue(a, ob.sortBy)
        y == ColumnValue(b, ob.sortBy)
        le(u, w) == w = <<>> \/ (u # <<>> /\ u[1] <= w[1])
    IN IF ob.order = "ASC" THEN le(x, y) ELSE le(y, x)

Ordered(t, ids, ob) ==
    CHOOSE q \in [1..Cardinality(ids) -> ids] :
        /\ \A i, j \in DOMAIN q : i # j => q[i] # q[j]
        /\ \A i, j \in DOMAIN q : i < j => ComesBefore(t[q[i]], t[q[j]], ob)

ErrCountFailed == "failed to count todos"

ListOn(t, filter) ==
    LET where == buildWhereClause(filter)
        ob == buildOrderByClause(filter)
        matching == {id \in DOMAIN t :
                       t[id] # NoRow /\ \A i \in 1..Len(where) : Satisfies(t[id], where[i])}
        q == Ordered(t, matching, ob)
        offset == (filter.Page - 1) * filter.PageSize
        page == SubSeq(q, offset + 1,
                       IF offset + filter.PageSize < Len(q)
                       THEN offset + filter.PageSize ELSE Len(q))
    IN IF UndefinedColumn(where)
       THEN [todos |-> <<>>, total |-> 0, err |-> ErrCountFailed]
       ELSE [todos |-> [i \in DOMAIN page |-> ScanTodo(t[page[i]])],
             total |-> Cardinality(matching), err |-> OK]

RepoList(filter) == ListOn(rows, filter)

---------------------------------------------------------------------------
(* Calls of the repository, each one statement against the table, by any   *)
(* caller in any order.  last names the call being answered, the id it is  *)
(* about and the error it returns; Return hands the answer to the caller,  *)
(* after which the next call is made.                                      *)

\* a Todo as CreateTodo hands it to Create: fresh from NewTodo
FreshTodo(id, tenantID) == NewTodo(1, 0, "u1", tenantID, PriorityMedium, id).todo

\* a Todo as a caller of Update holds it: read earlier, status and version set
HeldTodo(id, tenantID, version, status) ==
    [FreshTodo(id, tenantID) EXCEPT !.Version = version, !.Status = status]

\* a filter as ListFilter.Validate leaves it, nothing optional populated
TenantFilter(tenantID) ==
    [TenantID |-> tenantID, OwnerID |-> <<>>, AssignedTo |-> <<>>, Statuses |-> <<>>,
     Priorities |-> <<>>, Tags |-> <<>>, DueDateFrom |-> <<>>, DueDateTo |-> <<>>,
     SearchQuery |-> <<>>, Page |-> 1, PageSize |-> 20, SortBy |-> "",
     SortAscending |-> FALSE]

ListInputs ==
    UNION {{TenantFilter(tn),
            [TenantFilter(tn) EXCEPT !.OwnerID = <<"u1">>, !.Statuses = <<StatusPending>>],
            [TenantFilter(tn) EXCEPT !.AssignedTo = <<"u2">>,
                                     !.Priorities = <<PriorityMedium, PriorityHigh>>,
                                     !.SortBy = "title", !.SortAscending = TRUE],
            [TenantFilter(tn) EXCEPT !.Tags = <<"a">>, !.DueDateFrom = <<0>>,
                                     !.DueDateTo = <<1>>, !.SearchQuery = <<1>>,
                                     !.PageSize = 1]} : tn \in Tenants}

\* filters that page through a tenant's rows
PagedInputs ==
    {[TenantFilter("t1") EXCEPT !.Page = p, !.PageSize = ps, !.SortBy = sb] :
        p \in 1..3, ps \in 1..2, sb \in {"", "title"}}

VersionInputs == 1..MaxVersion
\* a Todo NewTodo returns for a priority outside the four
UnrankedTodo(id, tenantID) == NewTodo(1, 0, "u1", tenantID, PriorityLow - 1, id).todo

CreateInputs ==
    {FreshTodo(id, tn) : id \in IDs, tn \in Tenants}
    \cup {UnrankedTodo(id, "t1") : id \in IDs}
\* the Todos submitted to Update for row id: as read, and with another owner and
\* creation time written into the struct
UpdateInputsFor(id) ==
    LET held == {HeldTodo(id, tn, v, st) :
                    tn \in Tenants, v \in VersionInputs, st \in TodoStatus}
    IN held \cup {[h EXCEPT !.OwnerID = "u2", !.CreatedAt = 1] : h \in held}
UpdateInputs == UNION {UpdateInputsFor(id) : id \in IDs}
BatchInputs ==
    {<<FreshTodo(a, tn)>> : a \in IDs, tn \in Tenants}
    \cup {<<FreshTodo(a, tn), FreshTodo(b, tn)>> : a \in IDs, b \in IDs, tn \in Tenants}

Create(todo) ==
    LET r == RepoCreate(todo) IN
    /\ last.op = "none"
    /\ rows' = r.rows
    /\ last' = [op |-> "Create", id |-> todo.ID, err |-> r.err]
    /\ UNCHANGED <<now, agg, callers>>

GetByID(id, tenantID) ==
    LET r == RepoGetByID(id, tenantID) IN
    /\ last.op = "none"
    /\ last' = [op |-> "GetByID", id |-> id, err |-> r.err]
    /\ UNCHANGED <<now, agg, rows, callers>>

Update(todo) ==
    LET r == RepoUpdate(todo) IN
    /\ last.op = "none"
    /\ todo.Version < MaxVersion
    /\ rows' = r.rows
    /\ last' = [op |-> "Update", id |-> todo.ID, err |-> r.err]
    /\ UNCHANGED <<now, agg, callers>>

Delete(id, tenantID) ==
    LET r == RepoDelete(id, tenantID) IN
    /\ last.op = "none"
    /\ rows' = r.rows
    /\ last' = [op |-> "Delete", id |-> id, err |-> r.err]
    /\ UNCHANGED <<now, agg, callers>>

UpdateStatusRow(id, tenantID, status, version) ==
    LET r == RepoUpdateStatus(id, tenantID, status, version) IN
    /\ last.op = "none"
    /\ version < MaxVersion
    /\ rows' = r.rows
    /\ last' = [op |-> "UpdateStatus", id |-> id, err |-> r.err]
    /\ UNCHANGED <<now, agg, callers>>

BatchCreate(todos) ==
    LET r == RepoBatchCreate(todos) IN
    /\ last.op = "none"
    /\ rows' = r.rows
    /\ last' = [op |-> "BatchCreate", id |-> todos[1].ID, err |-> r.err]
    /\ UNCHANGED <<now, agg, callers>>

List(filter) ==
    LET r == RepoList(filter) IN
    /\ last.op = "none"
    /\ last' = [op |-> "List", id |-> "", err |-> r.err]
    /\ UNCHANGED <<now, agg, rows, callers>>

Return ==
    /\ last.op # "none"
    /\ last' = [op |-> "none", id |-> "", err |-> OK]
    /\ UNCHANGED <<now, agg, rows, callers>>

NoAgg == [todo |-> NoTodo, op |-> "none", arg |-> NoArg, err |-> OK]
NoRows == [id \in IDs |-> NoRow]
NoCall == [op |-> "none", id |-> "", err |-> OK]

Init ==
    /\ now = 0
    /\ agg = NoAgg
    /\ rows = NoRows
    /\ last = NoCall
    /\ callers = <<>>

Next ==
    \/ Return
    \/ \E todo \in CreateInputs : Create(todo)
    \/ \E id \in IDs, tn \in Tenants : GetByID(id, tn)
    \/ \E todo \in UpdateInputs : Update(todo)
    \/ \E id \in IDs, tn \in Tenants : Delete(id, tn)
    \/ \E id \in IDs, tn \in Tenants, st \in TodoStatus, v \in VersionInputs :
          UpdateStatusRow(id, tn, st, v)
    \/ \E todos \in BatchInputs : BatchCreate(todos)
    \/ \E filter \in ListInputs \cup PagedInputs : List(filter)

Spec == Init /\ [][Next]_vars

---------------------------------------------------------------------------
(* package auth *)

hasRole(userCtx, role) == \E i \in 1..Len(userCtx.Roles) : userCtx.Roles[i] = role

CanUpdate(userCtx, todo) ==
    IF hasRole(userCtx, "admin") /\ userCtx.TenantID = todo.TenantID THEN TRUE
    ELSE IF userCtx.TenantID = todo.TenantID
              /\ (\/ todo.OwnerID = userCtx.UserID
                  \/ (todo.AssignedTo # <<>> /\ todo.AssignedTo[1] = userCtx.UserID))
         THEN TRUE
         ELSE FALSE

CanCreate(userCtx) == hasRole(userCtx, "user") \/ hasRole(userCtx, "admin")

CanReadAll(userCtx) == hasRole(userCtx, "admin")

CanRead(userCtx, todo) ==
    IF hasRole(userCtx, "admin") /\ userCtx.TenantID = todo.TenantID THEN TRUE
    ELSE IF userCtx.TenantID = todo.TenantID
              /\ (\/ todo.OwnerID = userCtx.UserID
                  \/ (todo.AssignedTo # <<>> /\ todo.AssignedTo[1] = userCtx.UserID))
         THEN TRUE
         ELSE FALSE

\* CanDelete granting the assignee what CanUpdate grants
CanDeleteLikeUpdate(userCtx, todo) == CanUpdate(userCtx, todo)

CanDelete(userCtx, todo) ==
    IF hasRole(userCtx, "admin") /\ userCtx.TenantID = todo.TenantID THEN TRUE
    ELSE userCtx.TenantID = todo.TenantID /\ todo.OwnerID = userCtx.UserID

---------------------------------------------------------------------------
(* package app: the field-mask applier.  A todov1.Todo of a request is a   *)
(* record of its fields, enums by their proto names, DueDate <<>> when      *)
(* absent; a nil or empty UpdateMask is <<>>.                              *)

\* mapProtoPriority without the default: an unspecified or unknown value
\* becomes a priority the domain does not know
mapProtoPriorityNoDefault(p) ==
    CASE p = "TODO_PRIORITY_LOW"      -> PriorityLow
      [] p = "TODO_PRIORITY_MEDIUM"   -> PriorityMedium
      [] p = "TODO_PRIORITY_HIGH"     -> PriorityHigh
      [] p = "TODO_PRIORITY_CRITICAL" -> PriorityCritical
      [] OTHER                        -> 0

mapProtoPriority(p) ==
    CASE p = "TODO_PRIORITY_LOW"      -> PriorityLow
      [] p = "TODO_PRIORITY_HIGH"     -> PriorityHigh
      [] p = "TODO_PRIORITY_CRITICAL" -> PriorityCritical
      [] OTHER                        -> PriorityMedium

mapProtoStatus(st) ==
    CASE st = "TODO_STATUS_PENDING"     -> StatusPending
      [] st = "TODO_STATUS_IN_PROGRESS" -> StatusInProgress
      [] st = "TODO_STATUS_COMPLETED"   -> StatusCompleted
      [] st = "TODO_STATUS_ARCHIVED"    -> StatusArchived
      [] OTHER                          -> StatusPending

\* updateAllFields that goes on to the status of the request
updateAllFieldsWithStatus(existing, updates) ==
    LET r1 == UpdateTitle(existing, updates.Title) IN
    IF r1.err # OK THEN r1
    ELSE LET r2 == UpdateDescription(r1.todo, updates.Description) IN
         IF r2.err # OK THEN r2
         ELSE LET r3 == UpdatePriority(r2.todo, mapProtoPriority(updates.Priority)) IN
              IF r3.err # OK THEN r3
              ELSE UpdateStatus(r3.todo, mapProtoStatus(updates.Status))

updateAllFields(existing, updates) ==
    LET r1 == UpdateTitle(existing, updates.Title) IN
    IF r1.err # OK THEN r1
    ELSE LET r2 == UpdateDescription(r1.todo, updates.Description) IN
         IF r2.err # OK THEN r2
         ELSE UpdatePriority(r2.todo, mapProtoPriority(updates.Priority))

\* one iteration of the loop over mask.Paths
applyPath(existing, updates, path) ==
    CASE path = "title"       -> UpdateTitle(existing, updates.Title)
      [] path = "description" -> UpdateDescription(existing, updates.Description)
      [] path = "priority"    -> UpdatePriority(existing, mapProtoPriority(updates.Priority))
      [] path = "status"      -> UpdateStatus(existing, mapProtoStatus(updates.Status))
      [] path = "due_date"    -> IF updates.DueDate # <<>>
                                 THEN SetDueDate(existing, updates.DueDate)
                                 ELSE [todo |-> existing, err |-> OK]
      [] path = "assigned_to" -> IF updates.AssignedTo # ""
                                 THEN AssignTo(existing, <<updates.AssignedTo>>)
                                 ELSE [todo |-> existing, err |-> OK]
      [] path = "tags"        -> IF Len(updates.Tags) > 0
                                 THEN AddTags(existing, updates.Tags)
                                 ELSE [todo |-> existing, err |-> OK]
      [] OTHER                -> [todo |-> existing, err |-> OK]

\* the loop going on to the next path after a mutator has failed, returning
\* the first error at the end
RECURSIVE applyPathsKeepGoing(_, _, _, _)
applyPathsKeepGoing(existing, updates, paths, i) ==
    IF i > Len(paths) THEN [todo |-> existing, err |-> OK]
    ELSE LET r == applyPath(existing, updates, paths[i])
             rest == applyPathsKeepGoing(r.todo, updates, paths, i + 1)
         IN IF r.err # OK THEN [todo |-> rest.todo, err |-> r.err] ELSE rest

RECURSIVE applyPaths(_, _, _, _)
applyPaths(existing, updates, paths, i) ==
    IF i > Len(paths) THEN [todo |-> existing, err |-> OK]
    ELSE LET r == applyPath(existing, updates, paths[i]) IN
         IF r.err # OK THEN r ELSE applyPaths(r.todo, updates, paths, i + 1)

applyFieldMaskUpdates(existing, updates, mask) ==
    IF Len(mask) = 0 THEN updateAllFields(existing, updates)
    ELSE applyPaths(existing, updates, mask, 1)

---------------------------------------------------------------------------
(* Concurrent callers.  A caller is either in the UpdateTodo handler, which *)
(* reads the row (GetByID), checks CanUpdate, applies the field mask to the *)
(* Todo it read and then writes it (Update), or it is a client of the      *)
(* repository that reads a row, sets fields of the Todo it read and writes *)
(* it with the version it read.  Other callers' statements come between    *)
(* the read and the write.                                                 *)
(*   loaded    the version the caller read                                 *)
(*   todo      the Todo it holds, after the write the one it submitted     *)
(*   mask      the UpdateMask of the UpdateTodo request                    *)
(*   touchedBy who else wrote the row between the caller's read and write  *)
(*   after     the row as stored right after the caller's write            *)
(*   batch     the Todos of the BatchCreate the caller is in               *)
(*   next      the index in batch of the INSERT it executes next           *)
(*   attempt   how many times the caller has reloaded the row to retry     *)
(*   filter    the ListFilter of the List call the caller is in, in <<>>   *)
(*   total     the count List has read                                     *)

Callers == {"c1", "c2"}

NoRequest ==
    [pc |-> "idle", op |-> "none", id |-> "", loaded |-> 0, todo |-> NoTodo,
     mask |-> <<>>, err |-> OK, touchedBy |-> {}, after |-> NoRow,
     batch |-> <<>>, next |-> 0, attempt |-> 0, filter |-> <<>>, total |-> 0]

\* a successful write of row id by `by' is seen by the callers that hold the row
Touch(cs, id, by) ==
    [d \in Callers |->
        IF d # by /\ cs[d].pc = "loaded" /\ cs[d].id = id
        THEN [cs[d] EXCEPT !.touchedBy = @ \cup {by}]
        ELSE cs[d]]

UserContexts ==
    {[UserID |-> "u1", TenantID |-> "t1", Roles |-> <<"user">>],
     [UserID |-> "u2", TenantID |-> "t1", Roles |-> <<"user">>],
     [UserID |-> "u2", TenantID |-> "t1", Roles |-> <<"user", "admin">>],
     [UserID |-> "u1", TenantID |-> "t2", Roles |-> <<"admin">>]}

ProtoHigh ==
    [Title |-> 5, Description |-> 0, Priority |-> "TODO_PRIORITY_HIGH",
     Status |-> "TODO_STATUS_IN_PROGRESS", DueDate |-> <<>>, AssignedTo |-> "u2",
     Tags |-> <<"a">>]

ProtoEmpty ==
    [Title |-> 0, Description |-> 0, Priority |-> "TODO_PRIORITY_UNSPECIFIED",
     Status |-> "TODO_STATUS_COMPLETED", DueDate |-> <<>>, AssignedTo |-> "",
     Tags |-> <<>>]

\* the UpdateTodoRequests sent: one known field, all fields (no mask), a
\* status the table forbids, an unknown field, two known fields
Requests ==
    {[Todo |-> ProtoHigh,  UpdateMask |-> <<"title">>],
     [Todo |-> ProtoHigh,  UpdateMask |-> <<>>],
     [Todo |-> ProtoEmpty, UpdateMask |-> <<"status">>],
     [Todo |-> ProtoHigh,  UpdateMask |-> <<"owner_id">>],
     [Todo |-> ProtoHigh,  UpdateMask |-> <<"assigned_to", "tags">>]}

\* UpdateTodo up to and including applyFieldMaskUpdates
UpdateTodoRead(c, userCtx, req) ==
    LET id == req.Id
        g == RepoGetByID(id, userCtx.TenantID)
        a == applyFieldMaskUpdates(g.todo, req.Todo, req.UpdateMask)
        code == IF g.err = ErrTodoNotFound THEN "NotFound"
                ELSE IF ~CanUpdate(userCtx, g.todo) THEN "PermissionDenied"
                ELSE IF a.err # OK THEN "InvalidArgument"
                ELSE "OK"
    IN /\ callers[c].pc # "loaded"
       /\ callers' = [callers EXCEPT ![c] =
             IF code # "OK"
             THEN [NoRequest EXCEPT !.pc = "done", !.op = "UpdateTodo", !.id = id,
                                    !.err = code]
             ELSE [NoRequest EXCEPT !.pc = "loaded", !.op = "UpdateTodo", !.id = id,
                                    !.loaded = g.todo.Version, !.todo = a.todo,
                                    !.mask = req.UpdateMask]]
       /\ UNCHANGED <<now, agg, rows, last>>

\* UpdateTodo from s.repo.Update on
UpdateTodoWrite(c) ==
    LET r == RepoUpdate(callers[c].todo)
        id == callers[c].id
    IN /\ callers[c].pc = "loaded"
       /\ callers[c].op = "UpdateTodo"
       /\ r.err = OK => rows[id].Version < MaxVersion
       /\ rows' = r.rows
       /\ callers' = [(IF r.err = OK THEN Touch(callers, id, c) ELSE callers)
                         EXCEPT ![c] = [@ EXCEPT !.pc = "done",
                                                 !.err = IF r.err = ErrVersionMismatch
                                                         THEN "Aborted" ELSE "OK",
                                                 !.after = r.rows[id]]]
       /\ UNCHANGED <<now, agg, last>>

\* a client of the repository reads a row
ClientRead(c, id, tenantID) ==
    LET g == RepoGetByID(id, tenantID) IN
    /\ callers[c].pc # "loaded"
    /\ callers' = [callers EXCEPT ![c] =
          IF g.err # OK
          THEN [NoRequest EXCEPT !.pc = "done", !.op = "Update", !.id = id,
                                 !.err = g.err]
          ELSE [NoRequest EXCEPT !.pc = "loaded", !.op = "Update", !.id = id,
                                 !.loaded = g.todo.Version, !.todo = g.todo]]
    /\ UNCHANGED <<now, agg, rows, last>>

\* the client sets title and status of the Todo it read and calls Update
ClientUpdate(c, title, status) ==
    LET todo == [callers[c].todo EXCEPT !.Title = title, !.Status = status]
        r == RepoUpdate(todo)
        id == callers[c].id
    IN /\ callers[c].pc = "loaded"
       /\ callers[c].op = "Update"
       /\ r.err = OK => rows[id].Version < MaxVersion
       /\ rows' = r.rows
       /\ callers' = [(IF r.err = OK THEN Touch(callers, id, c) ELSE callers)
                         EXCEPT ![c] = [@ EXCEPT !.pc = "done", !.todo = todo,
                                                 !.err = r.err, !.after = r.rows[id]]]
       /\ UNCHANGED <<now, agg, last>>

\* a Todo is stored
Stored(todo) ==
    LET r == RepoCreate(todo) IN
    /\ r.err = OK
    /\ rows' = r.rows
    /\ UNCHANGED <<now, agg, last, callers>>

\* some other caller's UpdateStatus or Delete on the row
OtherUpdateStatus(id, tenantID, status, version) ==
    LET r == RepoUpdateStatus(id, tenantID, status, version) IN
    /\ r.err = OK
    /\ rows[id].Version < MaxVersion
    /\ rows' = r.rows
    /\ callers' = Touch(callers, id, "other")
    /\ UNCHANGED <<now, agg, last>>

OtherDelete(id, tenantID) ==
    LET r == RepoDelete(id, tenantID) IN
    /\ r.err = OK
    /\ rows' = r.rows
    /\ callers' = Touch(callers, id, "other")
    /\ UNCHANGED <<now, agg, last>>

RaceIDs == {"id1"}
ClientEdits == {<<2, StatusInProgress>>, <<3, StatusArchived>>}

InitRace ==
    /\ now = 0
    /\ agg = NoAgg
    /\ rows = NoRows
    /\ last = NoCall
    /\ callers = [c \in Callers |-> NoRequest]

NextRace ==
    \/ \E id \in RaceIDs : Stored(FreshTodo(id, "t1"))
    \/ \E c \in Callers, userCtx \in UserContexts, id \in RaceIDs, r \in Requests :
          UpdateTodoRead(c, userCtx, [Id |-> id, Todo |-> r.Todo,
                                      UpdateMask |-> r.UpdateMask])
    \/ \E c \in Callers : UpdateTodoWrite(c)
    \/ \E c \in Callers, id \in RaceIDs, tn \in Tenants : ClientRead(c, id, tn)
    \/ \E c \in Callers, e \in ClientEdits : ClientUpdate(c, e[1], e[2])
    \/ \E id \in RaceIDs, tn \in Tenants, st \in {StatusInProgress} :
          OtherUpdateStatus(id, tn, st, rows[id].Version)
    \/ \E id \in RaceIDs, tn \in Tenants : OtherDelete(id, tn)

SpecRace == InitRace /\ [][NextRace]_vars

---------------------------------------------------------------------------
(* Reload and retry: a client of the repository whose Update was refused   *)
(* reads the row again and calls Update with the version it has now read.  *)

\* a retry that submits the Todo of the refused attempt again, not reloaded
ClientReloadKeepsTodo(c) ==
    /\ callers[c].pc = "done"
    /\ callers[c].op = "Update"
    /\ callers[c].err = ErrVersionMismatch
    /\ callers' = [callers EXCEPT ![c] =
          [@ EXCEPT !.pc = "loaded", !.err = OK, !.touchedBy = {}, !.after = NoRow,
                    !.attempt = @ + 1]]
    /\ UNCHANGED <<now, agg, rows, last>>

\* the client reads the row again after ErrVersionMismatch
ClientReload(c) ==
    LET id == callers[c].id
        g == RepoGetByID(id, callers[c].todo.TenantID)
    IN /\ callers[c].pc = "done"
       /\ callers[c].op = "Update"
       /\ callers[c].err = ErrVersionMismatch
       /\ callers' = [callers EXCEPT ![c] =
             IF g.err # OK
             THEN [NoRequest EXCEPT !.pc = "done", !.op = "Update", !.id = id,
                                    !.err = g.err, !.attempt = callers[c].attempt + 1]
             ELSE [NoRequest EXCEPT !.pc = "loaded", !.op = "Update", !.id = id,
                                    !.loaded = g.todo.Version, !.todo = g.todo,
                                    !.attempt = callers[c].attempt + 1]]
       /\ UNCHANGED <<now, agg, rows, last>>

NextRetry ==
    \/ \E id \in RaceIDs : Stored(FreshTodo(id, "t1"))
    \/ \E c \in Callers, id \in RaceIDs, tn \in Tenants : ClientRead(c, id, tn)
    \/ \E c \in Callers, e \in ClientEdits : ClientUpdate(c, e[1], e[2])
    \/ \E c \in Callers : ClientReload(c)
    \/ \E id \in RaceIDs, tn \in Tenants, st \in {StatusInProgress} :
          OtherUpdateStatus(id, tn, st, rows[id].Version)
    \/ \E id \in RaceIDs, tn \in Tenants : OtherDelete(id, tn)

SpecRetry == InitRace /\ [][NextRetry]_vars

---------------------------------------------------------------------------
(* BatchCreate statement by statement.  Its INSERTs run in a transaction:  *)
(* they are in the table other callers read from Commit on, an INSERT of   *)
(* an id that another open transaction has inserted waits for that         *)
(* transaction to end, and a return before Commit rolls all of them back.  *)

\* the ids the open transaction of caller c has inserted
Pending(c) ==
    IF callers[c].pc = "tx"
    THEN {callers[c].batch[i].ID : i \in 1..(callers[c].next - 1)}
    ELSE {}

\* the ids inserted by open transactions of other callers than c
Locked(c) == UNION {Pending(d) : d \in Callers \ {c}}

RECURSIVE InsertAll(_, _, _)
InsertAll(t, todos, n) ==
    IF n = 0 THEN t ELSE Insert(InsertAll(t, todos, n - 1), todos[n]).rows

\* the table as the transaction of caller c reads it
TxView(c) == InsertAll(rows, callers[c].batch, callers[c].next - 1)

\* BatchCreate up to the prepared statement
BatchBegin(c, todos) ==
    /\ callers[c].pc \in {"idle", "done"}
    /\ callers' = [callers EXCEPT ![c] =
          [NoRequest EXCEPT !.pc = "tx", !.op = "BatchCreate", !.id = todos[1].ID,
                            !.batch = todos, !.next = 1]]
    /\ UNCHANGED <<now, agg, rows, last>>

\* a loop iteration whose statement runs on the pool instead of the
\* transaction: the insert is stored at once
BatchExecAutocommit(c) ==
    LET todo == callers[c].batch[callers[c].next]
        r == Insert(rows, todo)
    IN /\ callers[c].pc = "tx"
       /\ callers[c].next <= Len(callers[c].batch)
       /\ rows' = r.rows
       /\ callers' = [callers EXCEPT ![c] =
             IF r.err # OK
             THEN [@ EXCEPT !.pc = "done", !.err = ErrBatchInsertFailed]
             ELSE [@ EXCEPT !.next = @ + 1]]
       /\ UNCHANGED <<now, agg, last>>

\* one iteration of the loop: stmt.ExecContext and, if it fails, the return
\* with the deferred Rollback
BatchExec(c) ==
    LET todo == callers[c].batch[callers[c].next]
        r == Insert(TxView(c), todo)
    IN /\ callers[c].pc = "tx"
       /\ callers[c].next <= Len(callers[c].batch)
       /\ todo.ID \notin Locked(c)
       /\ callers' = [callers EXCEPT ![c] =
             IF r.err # OK
             THEN [@ EXCEPT !.pc = "done", !.err = ErrBatchInsertFailed]
             ELSE [@ EXCEPT !.next = @ + 1]]
       /\ UNCHANGED <<now, agg, rows, last>>

\* tx.Commit after the loop
BatchCommit(c) ==
    /\ callers[c].pc = "tx"
    /\ callers[c].next > Len(callers[c].batch)
    /\ rows' = TxView(c)
    /\ callers' = [callers EXCEPT ![c] = [@ EXCEPT !.pc = "done", !.err = OK]]
    /\ UNCHANGED <<now, agg, last>>

\* the context times out or the connection fails: the statement or the
\* Commit returns an error, the deferred Rollback runs
BatchFail(c) ==
    /\ callers[c].pc = "tx"
    /\ callers' = [callers EXCEPT ![c] =
          [@ EXCEPT !.pc = "done", !.err = "failed to commit transaction"]]
    /\ UNCHANGED <<now, agg, rows, last>>

\* another caller's Create, waiting while an open transaction holds the id
OtherCreate(todo) ==
    LET r == RepoCreate(todo) IN
    /\ todo.ID \notin Locked("")
    /\ r.err = OK
    /\ rows' = r.rows
    /\ UNCHANGED <<now, agg, last, callers>>

NextBatch ==
    \/ \E c \in Callers, todos \in {b \in BatchInputs : b[1].TenantID = "t1"} :
          BatchBegin(c, todos)
    \/ \E c \in Callers : BatchExec(c)
    \/ \E c \in Callers : BatchCommit(c)
    \/ \E c \in Callers : BatchFail(c)
    \/ \E todo \in CreateInputs : OtherCreate(todo)
    \/ \E id \in IDs, tn \in Tenants : OtherDelete(id, tn)

SpecBatch == InitRace /\ [][NextBatch]_vars

---------------------------------------------------------------------------
(* Claims about the aggregate, checked under SpecAgg *)

\* a call of op has just been made on the aggregate
AggStep(op) == agg' # agg /\ agg'.op = op

\* the transition table of the specification, as pairs <<from, to>>
TransitionTable ==
    {<<StatusPending, StatusInProgress>>, <<StatusPending, StatusArchived>>,
     <<StatusInProgress, StatusPending>>, <<StatusInProgress, StatusCompleted>>,
     <<StatusInProgress, StatusArchived>>, <<StatusCompleted, StatusPending>>,
     <<StatusCompleted, StatusArchived>>, <<StatusArchived, StatusPending>>}

StatusStep(t, S) ==
    {UpdateStatus([t EXCEPT !.Status = from], to).todo.Status :
        <<from, to>> \in {p \in S \X TodoStatus :
                            UpdateStatus([t EXCEPT !.Status = p[1]], p[2]).err = OK}}

RECURSIVE StatusClosure(_, _, _)
StatusClosure(t, S, n) ==
    IF n = 0 THEN S ELSE StatusClosure(t, S \cup StatusStep(t, S), n - 1)

\* the statuses a sequence of one or more successful UpdateStatus calls reaches
ReachableStatuses(t) ==
    StatusClosure(t, StatusStep(t, {t.Status}), Cardinality(TodoStatus))

\* C6: a newly constructed task is Pending; from whatever status a task is in,
\* some sequence of successful UpdateStatus calls reaches Pending (no status is
\* terminal), and from Pending every status is reachable.
C6_NoTerminalStatus ==
    /\ (agg.op = "NewTodo" /\ agg.err = OK) => agg.todo.Status = StatusPending
    /\ agg.todo # NoTodo =>
          /\ StatusPending \in ReachableStatuses(agg.todo)
          /\ agg.todo.Status = StatusPending => ReachableStatuses(agg.todo) = TodoStatus

\* an Archived task has been brought back to Pending
C6_Witness ==
    /\ agg.op = "UpdateStatus"
    /\ agg.err = OK
    /\ agg.todo.Status = StatusPending
    /\ agg.todo.Version = 3

ValidNewTodoArg(a) ==
    a.title >= 1 /\ a.title <= 200 /\ a.ownerID # "" /\ a.tenantID # ""

\* C8: for a title of length 1..200 and non-empty owner and tenant ids, NewTodo
\* returns a task with Version 1, status Pending, UpdatedAt = CreatedAt, no tags,
\* no due date, no assignee, and the given owner and tenant.
C8_NewTodoInitialState ==
    (agg.op = "NewTodo" /\ ValidNewTodoArg(agg.arg)) =>
        /\ agg.err = OK
        /\ agg.todo # NoTodo
        /\ agg.todo.Version = 1
        /\ agg.todo.Status = StatusPending
        /\ agg.todo.UpdatedAt = agg.todo.CreatedAt
        /\ agg.todo.Tags = <<>>
        /\ agg.todo.DueDate = <<>>
        /\ agg.todo.AssignedTo = <<>>
        /\ agg.todo.OwnerID = agg.arg.ownerID
        /\ agg.todo.TenantID = agg.arg.tenantID

\* a task with a 200 character title has been constructed after time 0
C8_Witness ==
    /\ agg.op = "NewTodo"
    /\ agg.arg.title = 200
    /\ agg.err = OK
    /\ agg.todo.CreatedAt > 0

\* C9: NewTodo returns an error and no task when the title is empty or longer
\* than 200, or the owner id or the tenant id is empty; no task held by a caller
\* has an empty tenant id or an empty owner id.
C9_NewTodoRejects ==
    /\ (agg.op = "NewTodo" /\ ~ValidNewTodoArg(agg.arg)) =>
          agg.err # OK /\ agg.todo = NoTodo
    /\ agg.todo # NoTodo => agg.todo.TenantID # "" /\ agg.todo.OwnerID # ""

\* NewTodo has refused an empty tenant id, title and owner being valid
C9_Witness ==
    /\ agg.op = "NewTodo"
    /\ agg.arg.title = 1 /\ agg.arg.ownerID = "u1" /\ agg.arg.tenantID = ""
    /\ agg.err = ErrInvalidTenantID
    /\ agg.todo = NoTodo

\* C10: AddTags(tags) fails with ErrTooManyTags exactly when
\* len(current tags) + len(tags) > 20; on that failure the tag list, the version
\* and updated-at are unchanged; on success the tag list is the old one followed
\* by the given tags in order, duplicates kept.
C10_AddTagsAtomic ==
    [][AggStep("AddTags") =>
        LET t == agg.todo
            tags == agg'.arg.tags
        IN /\ agg'.err = ErrTooManyTags <=> Len(t.Tags) + Len(tags) > 20
           /\ agg'.err \in {OK, ErrTooManyTags}
           /\ agg'.err = ErrTooManyTags =>
                 /\ agg'.todo.Tags = t.Tags
                 /\ agg'.todo.Version = t.Version
                 /\ agg'.todo.UpdatedAt = t.UpdatedAt
           /\ agg'.err = OK =>
                 /\ Len(agg'.todo.Tags) = Len(t.Tags) + Len(tags)
                 /\ \A i \in 1..Len(t.Tags) : agg'.todo.Tags[i] = t.Tags[i]
                 /\ \A i \in 1..Len(tags) : agg'.todo.Tags[Len(t.Tags) + i] = tags[i]]_vars

\* AddTags has failed on a task that already has tags, for a list that alone
\* would fit, at a time later than the task's last change
C10_Witness ==
    /\ agg.op = "AddTags"
    /\ agg.err = ErrTooManyTags
    /\ Len(agg.todo.Tags) > 0
    /\ Len(agg.arg.tags) <= 20
    /\ Len(agg.arg.tags) > 0
    /\ agg.todo.UpdatedAt < now

---------------------------------------------------------------------------
(* List query by query, beside other callers' Create and Delete.  The      *)
(* count query and the page query are two statements on the pool, outside  *)
(* any transaction; List returns at the first one that fails.              *)

\* the count query: SELECT COUNT(*) FROM todos WHERE ...
CountOn(t, filter) ==
    LET where == buildWhereClause(filter)
        matching == {id \in DOMAIN t :
                       t[id] # NoRow /\ \A i \in 1..Len(where) : Satisfies(t[id], where[i])}
    IN IF UndefinedColumn(where) THEN [total |-> 0, err |-> ErrCountFailed]
       ELSE [total |-> Cardinality(matching), err |-> OK]

\* List up to and including the Scan of the count
ListCount(c, filter) ==
    LET r == CountOn(rows, filter) IN
    /\ callers[c].pc \in {"idle", "done"}
    /\ callers' = [callers EXCEPT ![c] =
          IF r.err # OK
          THEN [NoRequest EXCEPT !.pc = "done", !.op = "List", !.filter = <<filter>>,
                                 !.err = r.err]
          ELSE [NoRequest EXCEPT !.pc = "counted", !.op = "List", !.filter = <<filter>>,
                                 !.total = r.total]]
    /\ UNCHANGED <<now, agg, rows, last>>

NextList ==
    \/ \E c \in Callers, filter \in PagedInputs : ListCount(c, filter)
    \/ \E todo \in CreateInputs : OtherCreate(todo)
    \/ \E id \in IDs, tn \in Tenants : OtherDelete(id, tn)

SpecList == InitRace /\ [][NextList]_vars

---------------------------------------------------------------------------
(* The handlers that write, CreateTodo, UpdateTodo and DeleteTodo, called  *)
(* by users with and without the capability.  CreateTodo makes one          *)
(* repository call, so it is one step.                                      *)

mapDomainError(err) ==
    CASE err \in {ErrEmptyTitle, ErrTitleTooLong, ErrDescriptionTooLong,
                  ErrInvalidPriority, ErrDueDateInPast, ErrTooManyTags} -> "InvalidArgument"
      [] err = ErrInvalidStatusTransition -> "FailedPrecondition"
      [] err = ErrTodoNotFound            -> "NotFound"
      [] err = ErrVersionMismatch         -> "Aborted"
      [] OTHER                            -> "Internal"

validateCreateRequest(req) ==
    IF req.Title = 0 THEN "title is required"
    ELSE IF req.Title > 200 THEN "title exceeds maximum length"
    ELSE OK

\* CreateTodo up to s.repo.Create: the Todo built and the code of the early
\* return, "OK" when there is none; id is the value of uuid.New()
buildTodo(userCtx, req, id) ==
    LET n == NewTodo(req.Title, req.Description, userCtx.UserID, userCtx.TenantID,
                     mapProtoPriority(req.Priority), id)
        d == IF req.DueDate # <<>> THEN SetDueDate(n.todo, req.DueDate)
             ELSE [todo |-> n.todo, err |-> OK]
        g == IF Len(req.Tags) > 0 THEN AddTags(d.todo, req.Tags)
             ELSE [todo |-> d.todo, err |-> OK]
        a == IF req.AssignedTo # "" THEN AssignTo(g.todo, <<req.AssignedTo>>)
             ELSE [todo |-> g.todo, err |-> OK]
    IN IF validateCreateRequest(req) # OK THEN [todo |-> NoTodo, code |-> "InvalidArgument"]
       ELSE IF ~CanCreate(userCtx) THEN [todo |-> NoTodo, code |-> "PermissionDenied"]
       ELSE IF n.err # OK THEN [todo |-> NoTodo, code |-> mapDomainError(n.err)]
       ELSE IF d.err # OK THEN [todo |-> d.todo, code |-> mapDomainError(d.err)]
       ELSE IF g.err # OK THEN [todo |-> g.todo, code |-> mapDomainError(g.err)]
       ELSE IF a.err # OK THEN [todo |-> a.todo, code |-> mapDomainError(a.err)]
       ELSE [todo |-> a.todo, code |-> "OK"]

CreateTodoOutcome(b) ==
    LET r == RepoCreate(b.todo) IN
    IF b.code # "OK" THEN [rows |-> rows, code |-> b.code]
    ELSE IF r.err # OK THEN [rows |-> rows, code |-> "Internal"]
    ELSE [rows |-> r.rows, code |-> "OK"]

CreateTodo(c, userCtx, req, id) ==
    LET o == CreateTodoOutcome(buildTodo(userCtx, req, id)) IN
    /\ callers[c].pc # "loaded"
    /\ rows[id] = NoRow
    /\ rows' = o.rows
    /\ callers' = [callers EXCEPT ![c] =
          [NoRequest EXCEPT !.pc = "done", !.op = "CreateTodo", !.id = id,
                            !.err = o.code, !.after = o.rows[id]]]
    /\ UNCHANGED <<now, agg, last>>

\* DeleteTodo that calls Delete whatever CanDelete answers
DeleteTodoReadUnchecked(c, userCtx, id) ==
    LET g == RepoGetByID(id, userCtx.TenantID) IN
    /\ callers[c].pc # "loaded"
    /\ callers' = [callers EXCEPT ![c] =
          IF g.err = ErrTodoNotFound
          THEN [NoRequest EXCEPT !.pc = "done", !.op = "DeleteTodo", !.id = id,
                                 !.err = "NotFound"]
          ELSE [NoRequest EXCEPT !.pc = "loaded", !.op = "DeleteTodo", !.id = id,
                                 !.loaded = g.todo.Version, !.todo = g.todo]]
    /\ UNCHANGED <<now, agg, rows, last>>

---------------------------------------------------------------------------
(* UpdateTodo on stored tasks of every shape, with the call of the         *)
(* field-mask applier on record: agg holds the Todo GetByID returned        *)
(* (before), the request (arg), the Todo as applyFieldMaskUpdates left it   *)
(* (todo) and the error it returned (err).                                  *)

ProtoDue ==
    [Title |-> MaxTitleLen, Description |-> MaxDescriptionLen + 1,
     Priority |-> "TODO_PRIORITY_CRITICAL", Status |-> "TODO_STATUS_ARCHIVED",
     DueDate |-> <<0>>, AssignedTo |-> "u1", Tags |-> <<"a", "c">>]

MaskPaths ==
    {"title", "description", "priority", "status", "due_date", "assigned_to", "tags",
     "owner_id"}
PairPaths == {"title", "status", "due_date", "owner_id"}

\* a Todo message whose priority is left unspecified, and one whose priority
\* is a number the enum has no name for
ProtoUnspecified == [ProtoHigh EXCEPT !.Priority = "TODO_PRIORITY_UNSPECIFIED"]
ProtoUnknown == [ProtoHigh EXCEPT !.Priority = "9", !.Title = 2]

MaskInputs ==
    {<<>>} \cup {<<p>> : p \in MaskPaths} \cup {<<p, q>> : p \in PairPaths, q \in PairPaths}

\* the tasks stored before the request: as NewTodo returns them, in progress
\* with assignee, due date and a tag, completed with the tag limit reached
ApplySeeds ==
    {FreshTodo("id1", "t1"),
     [FreshTodo("id1", "t1") EXCEPT !.Status = StatusInProgress, !.AssignedTo = <<"u2">>,
                                    !.DueDate = <<MaxTime>>, !.Tags = <<"b">>,
                                    !.Priority = PriorityHigh],
     [FreshTodo("id1", "t1") EXCEPT !.Status = StatusCompleted,
                                    !.Tags = Rep(MaxTags, "b")]}

NoApply == [op |-> "none", before |-> NoTodo, arg |-> [Todo |-> ProtoEmpty, UpdateMask |-> <<>>],
            todo |-> NoTodo, err |-> OK]

\* UpdateTodo up to and including applyFieldMaskUpdates, the applier's call
\* put on record
UpdateTodoApply(c, userCtx, req) ==
    LET id == req.Id
        g == RepoGetByID(id, userCtx.TenantID)
        a == applyFieldMaskUpdates(g.todo, req.Todo, req.UpdateMask)
        code == IF g.err = ErrTodoNotFound THEN "NotFound"
                ELSE IF ~CanUpdate(userCtx, g.todo) THEN "PermissionDenied"
                ELSE IF a.err # OK THEN "InvalidArgument"
                ELSE "OK"
    IN /\ callers[c].pc # "loaded"
       /\ callers' = [callers EXCEPT ![c] =
             IF code # "OK"
             THEN [NoRequest EXCEPT !.pc = "done", !.op = "UpdateTodo", !.id = id,
                                    !.err = code]
             ELSE [NoRequest EXCEPT !.pc = "loaded", !.op = "UpdateTodo", !.id = id,
                                    !.loaded = g.todo.Version, !.todo = a.todo,
                                    !.mask = req.UpdateMask]]
       /\ agg' = IF code \in {"NotFound", "PermissionDenied"} THEN NoApply
                 ELSE [op |-> "applyFieldMaskUpdates", before |-> g.todo,
                       arg |-> [Todo |-> req.Todo, UpdateMask |-> req.UpdateMask],
                       todo |-> a.todo, err |-> a.err]
       /\ UNCHANGED <<now, rows, last>>

InitApply ==
    /\ now = 0
    /\ agg = NoApply
    /\ rows = NoRows
    /\ last = NoCall
    /\ callers = [c \in Callers |-> NoRequest]

NextApply ==
    \/ Tick
    \/ \E todo \in ApplySeeds : Stored(todo)
    \/ \E userCtx \in {u \in UserContexts : u.Roles = <<"user">>},
          updates \in {ProtoHigh, ProtoEmpty, ProtoDue}, mask \in MaskInputs :
          UpdateTodoApply("c1", userCtx, [Id |-> "id1", Todo |-> updates,
                                          UpdateMask |-> mask])
    \/ \E userCtx \in {u \in UserContexts : u.Roles = <<"user">>},
          updates \in {ProtoUnspecified, ProtoUnknown}, mask \in {<<>>, <<"priority">>} :
          UpdateTodoApply("c1", userCtx, [Id |-> "id1", Todo |-> updates,
                                          UpdateMask |-> mask])
    \/ UpdateTodoWrite("c1")

SpecApply == InitApply /\ [][NextApply]_vars

---------------------------------------------------------------------------
(* ListFilter.Validate and buildOrderByClause on the filters a caller can   *)
(* pass.  Here agg holds the filter passed (arg), the filter as the last    *)
(* call left it (filter), the result of the call before a second Validate   *)
(* (once) and the ORDER BY compiled from the filter (orderBy).              *)

\* Validate that leaves a page size above the limit alone
ValidateNoUpperLimit(f) ==
    IF f.TenantID = "" THEN [filter |-> f, err |-> ErrInvalidTenantID]
    ELSE LET g == [f EXCEPT !.Page = IF @ < 1 THEN 1 ELSE @] IN
         [filter |-> [g EXCEPT !.PageSize = IF @ < 1 THEN 20 ELSE @], err |-> OK]

\* f.Validate(): the filter as the call leaves it, and the error returned
Validate(f) ==
    IF f.TenantID = "" THEN [filter |-> f, err |-> ErrInvalidTenantID]
    ELSE LET g == [f EXCEPT !.Page = IF @ < 1 THEN 1 ELSE @] IN
         [filter |-> [g EXCEPT !.PageSize = IF @ < 1 \/ @ > 100 THEN 20 ELSE @],
          err |-> OK]

PageInputs == {-1, 0, 1, 7}
PageSizeInputs == {-1, 0, 1, 20, 100, 101, 150}
SortByInputs == {"", "created_at", "title", "owner_id", "title; DROP TABLE todos"}

FilterInputs ==
    {[TenantFilter(tn) EXCEPT !.Page = p, !.PageSize = ps, !.SortBy = sb,
                              !.SortAscending = asc] :
        tn \in {"", "t1"}, p \in PageInputs, ps \in PageSizeInputs,
        sb \in SortByInputs, asc \in BOOLEAN}

NoOrderBy == [sortBy |-> "", order |-> ""]

CallValidate(f) ==
    LET r == Validate(f) IN
    /\ agg' = [op |-> "Validate", arg |-> f, filter |-> r.filter, err |-> r.err,
               once |-> [filter |-> f, err |-> OK], orderBy |-> NoOrderBy]
    /\ UNCHANGED <<now, rows, last, callers>>

\* Validate called on the filter a first Validate has left
CallValidateAgain ==
    LET r == Validate(agg.filter) IN
    /\ agg.op = "Validate"
    /\ agg' = [agg EXCEPT !.op = "ValidateAgain", !.filter = r.filter, !.err = r.err,
                          !.once = [filter |-> agg.filter, err |-> agg.err]]
    /\ UNCHANGED <<now, rows, last, callers>>

\* the ORDER BY of the filter, validated or not
CallBuildOrderByClause(f) ==
    /\ agg' = [op |-> "buildOrderByClause", arg |-> f, filter |-> f, err |-> OK,
               once |-> [filter |-> f, err |-> OK],
               orderBy |-> buildOrderByClause(f)]
    /\ UNCHANGED <<now, rows, last, callers>>

InitFilter ==
    /\ now = 0
    /\ agg = [op |-> "none", arg |-> TenantFilter("t1"), filter |-> TenantFilter("t1"),
              err |-> OK, once |-> [filter |-> TenantFilter("t1"), err |-> OK],
              orderBy |-> NoOrderBy]
    /\ rows = NoRows
    /\ last = NoCall
    /\ callers = <<>>

NextFilter ==
    \/ \E f \in FilterInputs : CallValidate(f)
    \/ CallValidateAgain
    \/ \E f \in FilterInputs : CallBuildOrderByClause(f)

SpecFilter == InitFilter /\ [][NextFilter]_vars

---------------------------------------------------------------------------
(* The handlers GetTodo, UpdateTodo and DeleteTodo beside other callers'   *)
(* deletes.  GetTodo is one repository call; DeleteTodo reads the row       *)
(* (GetByID), checks CanDelete on the Todo it read and then calls Delete,   *)
(* and another caller's statement can come between the two.                 *)

\* GetTodo answering with whatever row GetByID found, CanRead not asked
GetTodoUnchecked(c, userCtx, id) ==
    LET g == RepoGetByID(id, userCtx.TenantID)
        code == IF id = "" THEN "InvalidArgument"
                ELSE IF g.err = ErrTodoNotFound THEN "NotFound"
                ELSE "OK"
    IN /\ callers[c].pc # "loaded"
       /\ callers' = [callers EXCEPT ![c] =
             [NoRequest EXCEPT !.pc = "done", !.op = "GetTodo", !.id = id,
                               !.err = code,
                               !.todo = IF code = "OK" THEN g.todo ELSE NoTodo]]
       /\ UNCHANGED <<now, agg, rows, last>>

\* GetTodo
GetTodo(c, userCtx, id) ==
    LET g == RepoGetByID(id, userCtx.TenantID)
        code == IF id = "" THEN "InvalidArgument"
                ELSE IF g.err = ErrTodoNotFound THEN "NotFound"
                ELSE IF ~CanRead(userCtx, g.todo) THEN "PermissionDenied"
                ELSE "OK"
    IN /\ callers[c].pc # "loaded"
       /\ callers' = [callers EXCEPT ![c] =
             [NoRequest EXCEPT !.pc = "done", !.op = "GetTodo", !.id = id,
                               !.err = code,
                               !.todo = IF code = "OK" THEN g.todo ELSE NoTodo]]
       /\ UNCHANGED <<now, agg, rows, last>>

\* DeleteTodo up to and including CanDelete
DeleteTodoRead(c, userCtx, id) ==
    LET g == RepoGetByID(id, userCtx.TenantID)
        code == IF g.err = ErrTodoNotFound THEN "NotFound"
                ELSE IF ~CanDelete(userCtx, g.todo) THEN "PermissionDenied"
                ELSE "OK"
    IN /\ callers[c].pc # "loaded"
       /\ callers' = [callers EXCEPT ![c] =
             IF code # "OK"
             THEN [NoRequest EXCEPT !.pc = "done", !.op = "DeleteTodo", !.id = id,
                                    !.err = code]
             ELSE [NoRequest EXCEPT !.pc = "loaded", !.op = "DeleteTodo", !.id = id,
                                    !.loaded = g.todo.Version, !.todo = g.todo]]
       /\ UNCHANGED <<now, agg, rows, last>>

\* DeleteTodo from s.repo.Delete on; the Todo read carries the tenant of the
\* user context, the one GetByID matched
DeleteTodoWrite(c) ==
    LET id == callers[c].id
        r == RepoDelete(id, callers[c].todo.TenantID)
    IN /\ callers[c].pc = "loaded"
       /\ callers[c].op = "DeleteTodo"
       /\ rows' = r.rows
       /\ callers' = [(IF r.err = OK THEN Touch(callers, id, c) ELSE callers)
                         EXCEPT ![c] = [@ EXCEPT !.pc = "done",
                                                 !.err = IF r.err # OK
                                                         THEN "Internal" ELSE "OK",
                                                 !.after = r.rows[id]]]
       /\ UNCHANGED <<now, agg, last>>

\* the UpdateTodoRequests sent beside the deletes: one known field, an
\* unknown field
DeleteRaceRequests ==
    {[Todo |-> ProtoHigh, UpdateMask |-> <<"title">>],
     [Todo |-> ProtoHigh, UpdateMask |-> <<"owner_id">>]}

NextDelete ==
    \/ \E id \in RaceIDs : Stored(FreshTodo(id, "t1"))
    \/ \E c \in Callers, userCtx \in UserContexts, id \in RaceIDs \cup {""} :
          GetTodo(c, userCtx, id)
    \/ \E c \in Callers, userCtx \in UserContexts, id \in RaceIDs :
          DeleteTodoRead(c, userCtx, id)
    \/ \E c \in Callers : DeleteTodoWrite(c)
    \/ \E c \in Callers, userCtx \in UserContexts, id \in RaceIDs,
          r \in DeleteRaceRequests :
          UpdateTodoRead(c, userCtx, [Id |-> id, Todo |-> r.Todo,
                                      UpdateMask |-> r.UpdateMask])
    \/ \E c \in Callers : UpdateTodoWrite(c)
    \/ \E id \in RaceIDs, tn \in Tenants : OtherDelete(id, tn)

SpecDelete == InitRace /\ [][NextDelete]_vars

\* CreateTodo, UpdateTodo and DeleteTodo called by users with and without the
\* capability
\* the ListFilter ListTodos builds from the request, before Validate
listFilter(userCtx, req) ==
    [TenantID      |-> userCtx.TenantID,
     OwnerID       |-> IF ~CanReadAll(userCtx) THEN <<userCtx.UserID>> ELSE <<>>,
     AssignedTo    |-> IF req.AssignedToFilter # "" THEN <<req.AssignedToFilter>> ELSE <<>>,
     Statuses      |-> [i \in 1..Len(req.StatusFilter) |-> mapProtoStatus(req.StatusFilter[i])],
     Priorities    |-> [i \in 1..Len(req.PriorityFilter) |->
                           mapProtoPriority(req.PriorityFilter[i])],
     Tags          |-> req.TagsFilter,
     DueDateFrom   |-> req.DueDateFrom,
     DueDateTo     |-> req.DueDateTo,
     SearchQuery   |-> IF req.SearchQuery # 0 THEN <<req.SearchQuery>> ELSE <<>>,
     Page          |-> req.Page,
     PageSize      |-> req.PageSize,
     SortBy        |-> req.SortBy,
     SortAscending |-> req.SortOrder = "SORT_ORDER_ASC"]

\* the code ListTodos answers with
listTodosCode(userCtx, req) ==
    LET v == Validate(listFilter(userCtx, req)) IN
    IF v.err # OK THEN "InvalidArgument"
    ELSE IF RepoList(v.filter).err # OK THEN "Internal"
    ELSE "OK"

\* the Todos of the ListTodosResponse; none when the request fails
listTodosTodos(userCtx, req) ==
    LET v == Validate(listFilter(userCtx, req)) IN
    IF listTodosCode(userCtx, req) = "OK" THEN RepoList(v.filter).todos ELSE <<>>

ListTodos(c, userCtx, req) ==
    /\ callers[c].pc # "loaded"
    /\ callers' = [callers EXCEPT ![c] =
          [NoRequest EXCEPT !.pc = "done", !.op = "ListTodos",
                            !.err = listTodosCode(userCtx, req)]]
    /\ UNCHANGED <<now, agg, rows, last>>

NoListRequest ==
    [Page |-> 0, PageSize |-> 0, SortBy |-> "", SortOrder |-> "SORT_ORDER_UNSPECIFIED",
     StatusFilter |-> <<>>, PriorityFilter |-> <<>>, TagsFilter |-> <<>>,
     AssignedToFilter |-> "", DueDateFrom |-> <<>>, DueDateTo |-> <<>>,
     SearchQuery |-> 0]

ListRequests ==
    {NoListRequest,
     [NoListRequest EXCEPT !.Page = 2, !.PageSize = 1, !.SortBy = "title",
                           !.SortOrder = "SORT_ORDER_ASC",
                           !.StatusFilter = <<"TODO_STATUS_PENDING">>,
                           !.AssignedToFilter = "u2"]}

\* the users sending requests: the four with a role, and one with none
AuthContexts ==
    UserContexts \cup {[UserID |-> "u3", TenantID |-> "t1", Roles |-> <<>>]}

NoCreate ==
    [Title |-> 1, Description |-> 0, Priority |-> "TODO_PRIORITY_UNSPECIFIED",
     DueDate |-> <<>>, Tags |-> <<>>, AssignedTo |-> ""]

\* plain, without title, with assignee and a tag, with more tags than allowed,
\* with a due date, with due date, tag and assignee, with a due date gone by
CreateRequests ==
    {NoCreate,
     [NoCreate EXCEPT !.Title = 0],
     [NoCreate EXCEPT !.AssignedTo = "u2", !.Tags = <<"a">>],
     [NoCreate EXCEPT !.Tags = Rep(MaxTags + 1, "a")],
     [NoCreate EXCEPT !.DueDate = <<0>>],
     [NoCreate EXCEPT !.DueDate = <<MaxTime>>, !.Tags = <<"a">>, !.AssignedTo = "u1"],
     [NoCreate EXCEPT !.DueDate = <<-1>>, !.AssignedTo = "u2"]}

AuthUpdates ==
    {[Todo |-> ProtoHigh, UpdateMask |-> <<"owner_id">>],
     [Todo |-> ProtoEmpty, UpdateMask |-> <<"title">>]}

NextAuth ==
    \/ \E c \in Callers, userCtx \in AuthContexts, req \in CreateRequests, id \in RaceIDs :
          CreateTodo(c, userCtx, req, id)
    \/ \E c \in Callers, userCtx \in AuthContexts, id \in RaceIDs, r \in AuthUpdates :
          UpdateTodoRead(c, userCtx, [Id |-> id, Todo |-> r.Todo,
                                      UpdateMask |-> r.UpdateMask])
    \/ \E c \in Callers : UpdateTodoWrite(c)
    \/ \E c \in Callers, userCtx \in AuthContexts, id \in RaceIDs :
          DeleteTodoRead(c, userCtx, id)
    \/ \E c \in Callers : DeleteTodoWrite(c)
    \/ \E c \in Callers, userCtx \in AuthContexts, req \in ListRequests :
          ListTodos(c, userCtx, req)
    \/ \E c \in Callers, userCtx \in AuthContexts, id \in RaceIDs \cup {""} :
          GetTodo(c, userCtx, id)

SpecAuth == InitRace /\ [][NextAuth]_vars

---------------------------------------------------------------------------
(* Claims about the aggregate under all mutators, checked under SpecMut *)

\* C11: after NewTodo and any sequence of mutator calls, successful or not, the
\* task has a non-empty title of at most 200, a description of at most 2000, at
\* most 20 tags, and one of the four statuses.
C11_AggregateInvariants ==
    agg.todo # NoTodo =>
        /\ agg.todo.Title >= 1 /\ agg.todo.Title <= 200
        /\ agg.todo.Description <= 2000
        /\ Len(agg.todo.Tags) <= 20
        /\ agg.todo.Status \in {StatusPending, StatusInProgress, StatusCompleted,
                                StatusArchived}

\* what holds instead: the description is within the limit once
\* UpdateDescription has succeeded, or if NewTodo was given one within it
C11_DescriptionBoundedAfterUpdate ==
    agg.todo # NoTodo =>
        /\ agg.todo.Title >= 1 /\ agg.todo.Title <= 200
        /\ Len(agg.todo.Tags) <= 20
        /\ agg.todo.Status \in TodoStatus
        /\ (agg.op = "UpdateDescription" /\ agg.err = OK) => agg.todo.Description <= 2000

\* a task constructed with a description of 2001 has been through a mutator
C11_Witness ==
    /\ agg.todo # NoTodo
    /\ agg.todo.Description = 2001
    /\ agg.op = "UpdateTitle"
    /\ agg.err = OK

Mutators ==
    {"UpdateTitle", "UpdateDescription", "UpdateStatus", "UpdatePriority",
     "SetDueDate", "AssignTo", "AddTags"}

\* the task after a successful call of op with arguments a, updated-at and
\* version aside
OwnFieldSet(op, t, a) ==
    CASE op = "UpdateTitle"       -> [t EXCEPT !.Title = a.title]
      [] op = "UpdateDescription" -> [t EXCEPT !.Description = a.description]
      [] op = "UpdateStatus"      -> [t EXCEPT !.Status = a.status]
      [] op = "UpdatePriority"    -> [t EXCEPT !.Priority = a.priority]
      [] op = "SetDueDate"        -> [t EXCEPT !.DueDate = a.dueDate]
      [] op = "AssignTo"          -> [t EXCEPT !.AssignedTo = a.userID]
      [] op = "AddTags"           -> [t EXCEPT !.Tags = @ \o a.tags]

\* the errors a call of op may fail with
ErrorsOf(op) ==
    CASE op = "UpdateTitle"       -> {ErrEmptyTitle, ErrTitleTooLong}
      [] op = "UpdateDescription" -> {ErrDescriptionTooLong}
      [] op = "UpdateStatus"      -> {ErrInvalidStatusTransition}
      [] op = "UpdatePriority"    -> {ErrInvalidPriority}
      [] op = "SetDueDate"        -> {ErrDueDateInPast}
      [] op = "AssignTo"          -> {}
      [] op = "AddTags"           -> {ErrTooManyTags}

\* C12: every mutator either succeeds, changing only its own field and
\* updated-at and raising Version by exactly 1, or fails with its own error and
\* leaves the whole task unchanged; SetDueDate fails exactly when the instant
\* given is strictly before the current time; AssignTo never fails, an absent
\* value unassigning the task.
C12_MutatorFrame ==
    [][(agg' # agg /\ agg'.op \in Mutators) =>
        LET t == agg.todo
            a == agg'.arg
            op == agg'.op
        IN /\ \/ /\ agg'.err = OK
                 /\ agg'.todo = [OwnFieldSet(op, t, a) EXCEPT
                                    !.UpdatedAt = now, !.Version = t.Version + 1]
              \/ /\ agg'.err \in ErrorsOf(op)
                 /\ agg'.todo = t
           /\ op = "SetDueDate" =>
                 (agg'.err # OK <=> (a.dueDate # <<>> /\ a.dueDate[1] < now))
           /\ op = "AssignTo" => agg'.todo.AssignedTo = a.userID]_vars

\* SetDueDate has refused a past instant on a task that two mutators changed
\* before, the task left as it was
C12_Witness ==
    /\ agg.op = "SetDueDate"
    /\ agg.err = ErrDueDateInPast
    /\ agg.arg.dueDate = <<0>>
    /\ now = 1
    /\ agg.todo.Version = 3
    /\ agg.todo.AssignedTo = <<>>
    /\ agg.todo.UpdatedAt < now

---------------------------------------------------------------------------
(* Claims about the repository, checked under Spec *)

\* the step is the call Update(todo)
IsUpdate(todo) ==
    /\ last' = [op |-> "Update", id |-> todo.ID, err |-> RepoUpdate(todo).err]
    /\ Update(todo)

\* the step is the call UpdateStatus(id, tenantID, status, version)
IsUpdateStatus(id, tenantID, status, version) ==
    /\ last' = [op |-> "UpdateStatus", id |-> id,
                err |-> RepoUpdateStatus(id, tenantID, status, version).err]
    /\ UpdateStatusRow(id, tenantID, status, version)

\* C2: Update(task) succeeds if and only if a stored row has the task's id, its
\* tenant, a version equal to task.Version and no soft-delete marker; on success
\* the stored version becomes task.Version + 1; in every other case it returns
\* ErrVersionMismatch and leaves every stored row unchanged.
C2_UpdateIsConditionalWrite ==
    [][last'.op = "Update" => \A todo \in UpdateInputsFor(last'.id) : IsUpdate(todo) =>
        IF /\ rows[todo.ID] # NoRow
           /\ rows[todo.ID].TenantID = todo.TenantID
           /\ rows[todo.ID].Version = todo.Version
           /\ rows[todo.ID].DeletedAt = <<>>
        THEN /\ last'.err = OK
             /\ rows'[todo.ID].Version = todo.Version + 1
             /\ rows'[todo.ID].Status = todo.Status
             /\ \A id \in IDs \ {todo.ID} : rows'[id] = rows[id]
        ELSE /\ last'.err = ErrVersionMismatch
             /\ rows' = rows]_vars

\* an Update has been refused on a live row that has been written before, while
\* another row has been soft-deleted
C2_Witness ==
    /\ last.op = "Update"
    /\ last.err = ErrVersionMismatch
    /\ rows[last.id] # NoRow
    /\ rows[last.id].DeletedAt = <<>>
    /\ rows[last.id].Version = 2
    /\ \E id \in IDs : rows[id] # NoRow /\ rows[id].DeletedAt # <<>>

\* C4: over any sequence of Create, Update, UpdateStatus, Delete and BatchCreate
\* calls the stored version of a row never decreases, and every successful
\* Update or UpdateStatus raises it by exactly 1.
C4_VersionMonotone ==
    [][/\ \A id \in IDs : rows[id] # NoRow =>
             /\ rows'[id] # NoRow
             /\ rows'[id].Version >= rows[id].Version
       /\ (last'.op = "Update" /\ last'.err = OK) =>
             \A todo \in UpdateInputs : IsUpdate(todo) =>
                 rows'[todo.ID].Version = rows[todo.ID].Version + 1
       /\ (last'.op = "UpdateStatus" /\ last'.err = OK) =>
             \A id \in IDs, tn \in Tenants, st \in TodoStatus, v \in VersionInputs :
                 IsUpdateStatus(id, tn, st, v) =>
                     rows'[id].Version = rows[id].Version + 1]_vars

\* a row has been raised to version 3, the last time by UpdateStatus
C4_Witness ==
    /\ last.op = "UpdateStatus"
    /\ last.err = OK
    /\ rows[last.id].Version = 3

\* C7: every change of a row's stored status goes from its previous status to
\* one the transition table allows, and no successful UpdateStatus writes a
\* status the table does not allow after the stored one (the row's own status
\* included).
C7_StoredStatusFollowsTable ==
    [][/\ \A id \in IDs :
             (rows[id] # NoRow /\ rows'[id] # NoRow
                /\ rows'[id].Status # rows[id].Status) =>
                 <<rows[id].Status, rows'[id].Status>> \in TransitionTable
       /\ (last'.op = "UpdateStatus" /\ last'.err = OK) =>
             \A id \in IDs, tn \in Tenants, st \in TodoStatus, v \in VersionInputs :
                 IsUpdateStatus(id, tn, st, v) =>
                     <<rows[id].Status, st>> \in TransitionTable]_vars

\* the Todos the seven mutators leave, called on t with each of their inputs
MutatorResults(t) ==
    {UpdateTitle(t, x).todo : x \in TitleInputs}
    \cup {UpdateDescription(t, x).todo : x \in DescriptionInputs}
    \cup {UpdateStatus(t, x).todo : x \in StatusInputs}
    \cup {UpdatePriority(t, x).todo : x \in PriorityInputs}
    \cup {SetDueDate(t, x).todo : x \in DueDateInputs}
    \cup {AssignTo(t, x).todo : x \in AssigneeInputs}
    \cup {AddTags(t, x).todo : x \in TagInputs}

SameIdentity(a, b) ==
    /\ a.ID = b.ID
    /\ a.TenantID = b.TenantID
    /\ a.OwnerID = b.OwnerID
    /\ a.CreatedAt = b.CreatedAt

\* C13: id, tenant id, owner id and created-at never change after creation: no
\* repository call changes them in a stored row, whatever the submitted Todo
\* carries, and no mutator changes them in a Todo read from storage (whenever
\* a caller is about to make its next call).
C13_IdentityImmutable ==
    /\ [][\A id \in IDs : rows[id] # NoRow =>
              rows'[id] # NoRow /\ SameIdentity(rows'[id], rows[id])]_vars
    /\ [](\A id \in IDs : (last.op = "none" /\ rows[id] # NoRow) =>
              \A t \in MutatorResults(ScanTodo(rows[id])) : SameIdentity(t, rows[id]))

\* a row of owner u1 has been written by Update and by UpdateStatus, and another
\* has been soft-deleted, both still of owner u1 and their tenant
C13_Witness ==
    /\ last.op = "Update"
    /\ last.err = OK
    /\ rows[last.id].Version = 3
    /\ rows[last.id].OwnerID = "u1"
    /\ rows[last.id].CreatedAt = 0
    /\ \E id \in IDs : rows[id] # NoRow /\ rows[id].DeletedAt # <<>>
                        /\ rows[id].OwnerID = "u1" /\ rows[id].TenantID = "t2"

\* the step is the call Create(todo)
IsCreate(todo) ==
    /\ last' = [op |-> "Create", id |-> todo.ID, err |-> RepoCreate(todo).err]
    /\ Create(todo)

\* what Create returns when the statement fails for another reason than the id
OtherCreateFailures == {CreateOn(NoRows, UnrankedTodo(id, "t1")).err : id \in IDs}

\* C14: Create with an id that already has a row fails with an error the caller
\* can tell apart from other storage failures and leaves the row unchanged;
\* with a fresh id it inserts one live row carrying the task's fields and
\* version.
C14_CreateConflict ==
    [][last'.op = "Create" =>
        \A todo \in CreateInputs : (IsCreate(todo) /\ WithinConstraints(todo)) =>
            IF rows[todo.ID] # NoRow
            THEN /\ last'.err \notin {OK} \cup OtherCreateFailures
                 /\ rows' = rows
            ELSE /\ last'.err = OK
                 /\ rows' = [rows EXCEPT ![todo.ID] = InsertedRow(todo)]]_vars

\* what holds instead: the conflict is refused and nothing changes, with the
\* error every failed Create returns
C14_CreateConflictRefused ==
    [][last'.op = "Create" =>
        \A todo \in CreateInputs : (IsCreate(todo) /\ WithinConstraints(todo)) =>
            IF rows[todo.ID] # NoRow
            THEN /\ last'.err = ErrCreateFailed
                 /\ last'.err \in OtherCreateFailures
                 /\ rows' = rows
            ELSE /\ last'.err = OK
                 /\ rows' = [rows EXCEPT ![todo.ID] = InsertedRow(todo)]]_vars

\* Create has been refused for the id of a soft-deleted row of another tenant
C14_Witness ==
    /\ last.op = "Create"
    /\ last.err = ErrCreateFailed
    /\ rows[last.id] # NoRow
    /\ rows[last.id].DeletedAt # <<>>

Deleted(id) == rows[id] # NoRow /\ rows[id].DeletedAt # <<>>

\* table t without the row of id
Without(t, id) == [t EXCEPT ![id] = NoRow]

\* C16: a soft-deleted row stays deleted and unchanged, and every later call
\* treats it as absent: GetByID and Delete return ErrTodoNotFound, Update and
\* UpdateStatus return ErrVersionMismatch even with the row's version, List
\* neither returns nor counts it, and none of the calls changes the table
\* (whatever call a caller makes next).
C16_DeletedStaysDeleted ==
    /\ [][\A id \in IDs : Deleted(id) => rows'[id] = rows[id]]_vars
    /\ [](\A id \in IDs : (last.op = "none" /\ Deleted(id)) =>
            /\ \A tn \in Tenants :
                  /\ RepoGetByID(id, tn) = [todo |-> NoTodo, err |-> ErrTodoNotFound]
                  /\ RepoDelete(id, tn) = [rows |-> rows, err |-> ErrTodoNotFound]
                  /\ \A st \in TodoStatus, v \in VersionInputs :
                        RepoUpdateStatus(id, tn, st, v) =
                            [rows |-> rows, todo |-> NoTodo, err |-> ErrVersionMismatch]
            /\ \A todo \in UpdateInputsFor(id) :
                  RepoUpdate(todo) = [rows |-> rows, err |-> ErrVersionMismatch]
            /\ \A f \in ListInputs :
                  /\ \A i \in 1..Len(RepoList(f).todos) : RepoList(f).todos[i].ID # id
                  /\ RepoList(f).total = ListOn(Without(rows, id), f).total)

\* a second Delete of a row that was written and then soft-deleted has been
\* answered
C16_Witness ==
    /\ last.op = "Delete"
    /\ last.err = ErrTodoNotFound
    /\ Deleted(last.id)
    /\ rows[last.id].Version = 2

\* C18: UpdateStatus(id, tenant, newStatus, expectedVersion) succeeds only when
\* a live row of that id and tenant has version expectedVersion, otherwise
\* returns ErrVersionMismatch with the table unchanged; on success it changes
\* only status, updated-at and version of that row, and the row it returns is
\* the stored row, with version expectedVersion + 1 and status newStatus.
C18_UpdateStatusCompareAndSwap ==
    [][last'.op = "UpdateStatus" =>
        \A tn \in Tenants, st \in TodoStatus, v \in VersionInputs :
            IsUpdateStatus(last'.id, tn, st, v) =>
                LET id == last'.id
                    r == RepoUpdateStatus(id, tn, st, v)
                IN IF /\ rows[id] # NoRow
                      /\ rows[id].TenantID = tn
                      /\ rows[id].Version = v
                      /\ rows[id].DeletedAt = <<>>
                   THEN /\ last'.err = OK
                        /\ rows' = [rows EXCEPT ![id] =
                                      [@ EXCEPT !.Status = st, !.UpdatedAt = now,
                                                !.Version = v + 1]]
                        /\ r.todo = ScanTodo(rows'[id])
                        /\ r.todo.Version = v + 1
                        /\ r.todo.Status = st
                   ELSE /\ last'.err = ErrVersionMismatch
                        /\ r.todo = NoTodo
                        /\ rows' = rows]_vars

\* UpdateStatus has been refused on a live row that is at version 3
C18_Witness ==
    /\ last.op = "UpdateStatus"
    /\ last.err = ErrVersionMismatch
    /\ rows[last.id] # NoRow
    /\ rows[last.id].DeletedAt = <<>>
    /\ rows[last.id].Version = 3

\* table t without the rows of other tenants than tenantID
OnlyTenant(t, tenantID) ==
    [id \in DOMAIN t |->
        IF t[id] # NoRow /\ t[id].TenantID # tenantID THEN NoRow ELSE t[id]]

\* table u holds the rows of other tenants than tenantID exactly as table t
OthersUntouched(t, u, tenantID) ==
    \A id \in DOMAIN t : (t[id] # NoRow /\ t[id].TenantID # tenantID) => u[id] = t[id]

\* C19: a call made with tenant T neither returns nor modifies a row of another
\* tenant, and on the table without the rows of other tenants it returns the
\* same and leaves the same rows of T (whatever call a caller makes next).
C19_TenantIsolation ==
    \A tn \in Tenants : last.op = "none" =>
        LET own == OnlyTenant(rows, tn) IN
        /\ \A id \in IDs :
              /\ GetByIDOn(rows, id, tn) = GetByIDOn(own, id, tn)
              /\ GetByIDOn(rows, id, tn).err = OK => GetByIDOn(rows, id, tn).todo.TenantID = tn
              /\ DeleteOn(rows, id, tn).err = DeleteOn(own, id, tn).err
              /\ OnlyTenant(DeleteOn(rows, id, tn).rows, tn) = DeleteOn(own, id, tn).rows
              /\ OthersUntouched(rows, DeleteOn(rows, id, tn).rows, tn)
              /\ \A st \in TodoStatus, v \in VersionInputs :
                    LET a == UpdateStatusOn(rows, id, tn, st, v)
                        b == UpdateStatusOn(own, id, tn, st, v)
                    IN /\ a.err = b.err /\ a.todo = b.todo
                       /\ a.err = OK => a.todo.TenantID = tn
                       /\ OnlyTenant(a.rows, tn) = b.rows
                       /\ OthersUntouched(rows, a.rows, tn)
        /\ \A todo \in UpdateInputs : todo.TenantID = tn =>
              /\ UpdateOn(rows, todo).err = UpdateOn(own, todo).err
              /\ OnlyTenant(UpdateOn(rows, todo).rows, tn) = UpdateOn(own, todo).rows
              /\ OthersUntouched(rows, UpdateOn(rows, todo).rows, tn)
        /\ \A f \in ListInputs : f.TenantID = tn =>
              /\ ListOn(rows, f) = ListOn(own, f)
              /\ \A i \in 1..Len(ListOn(rows, f).todos) :
                    ListOn(rows, f).todos[i].TenantID = tn

\* a Delete has been answered ErrTodoNotFound for a live row, the table holding
\* live rows of both tenants
C19_Witness ==
    /\ last.op = "Delete"
    /\ last.err = ErrTodoNotFound
    /\ rows[last.id] # NoRow
    /\ rows[last.id].DeletedAt = <<>>
    /\ \E a, b \in IDs : /\ rows[a] # NoRow /\ rows[b] # NoRow
                         /\ rows[a].TenantID # rows[b].TenantID
                         /\ rows[a].DeletedAt = <<>> /\ rows[b].DeletedAt = <<>>

\* the step is the call List(filter)
IsList(filter) ==
    /\ last' = [op |-> "List", id |-> "", err |-> RepoList(filter).err]
    /\ List(filter)

\* the rows the specification has List return for a filter
Listed(filter) ==
    {id \in IDs :
        /\ rows[id] # NoRow
        /\ rows[id].TenantID = filter.TenantID
        /\ rows[id].DeletedAt = <<>>
        /\ filter.OwnerID # <<>> => rows[id].OwnerID = filter.OwnerID[1]
        /\ filter.AssignedTo # <<>> => rows[id].AssignedTo = filter.AssignedTo
        /\ filter.Statuses # <<>> =>
              \E i \in 1..Len(filter.Statuses) : filter.Statuses[i] = rows[id].Status
        /\ filter.Priorities # <<>> =>
              \E i \in 1..Len(filter.Priorities) : filter.Priorities[i] = rows[id].Priority
        /\ filter.Tags # <<>> =>
              \E i \in 1..Len(filter.Tags), j \in 1..Len(rows[id].Tags) :
                  filter.Tags[i] = rows[id].Tags[j]
        /\ filter.DueDateFrom # <<>> =>
              rows[id].DueDate # <<>> /\ rows[id].DueDate[1] >= filter.DueDateFrom[1]
        /\ filter.DueDateTo # <<>> =>
              rows[id].DueDate # <<>> /\ rows[id].DueDate[1] <= filter.DueDateTo[1]
        /\ filter.SearchQuery # <<>> =>
              \/ filter.SearchQuery[1] <= rows[id].Title
              \/ filter.SearchQuery[1] <= rows[id].Description}

\* C20: List(filter) returns exactly the rows of filter.TenantID that are not
\* soft-deleted and satisfy every populated field of the filter, counted in
\* total, and with no sort field ordered by created_at descending.
C20_ListReturnsMatchingRows ==
    [][last'.op = "List" =>
        \A f \in ListInputs : IsList(f) =>
            LET r == RepoList(f) IN
            /\ r.err = OK
            /\ r.total = Cardinality(Listed(f))
            /\ \A id \in Listed(f) :
                  Cardinality(Listed(f)) <= f.PageSize =>
                      \E i \in 1..Len(r.todos) : r.todos[i] = ScanTodo(rows[id])
            /\ \A i \in 1..Len(r.todos) : r.todos[i].ID \in Listed(f)
            /\ f.SortBy = "" =>
                  \A i, j \in 1..Len(r.todos) :
                      i < j => r.todos[i].CreatedAt >= r.todos[j].CreatedAt]_vars

\* the orders ORDER BY allows for the rows of ids
Orderings(ids, ob) ==
    {q \in [1..Cardinality(ids) -> ids] :
        /\ \A i, j \in DOMAIN q : i # j => q[i] # q[j]
        /\ \A i, j \in DOMAIN q : i < j => ComesBefore(rows[q[i]], rows[q[j]], ob)}

\* C23: with no write during the call, List returns as total the number of
\* all matching rows, whatever Page and PageSize, and as page the rows at
\* positions (Page-1)*PageSize .. (Page-1)*PageSize+PageSize-1 of the ordered
\* matching rows: at most PageSize rows, none when the offset is at or past the
\* total (whatever List call a caller makes next).
C23_ListPaginates ==
    last.op = "none" =>
        \A f \in PagedInputs :
            LET r == RepoList(f)
                offset == (f.Page - 1) * f.PageSize
                total == Cardinality(Listed(f))
                upto == IF offset + f.PageSize < total THEN offset + f.PageSize ELSE total
            IN /\ r.err = OK
               /\ r.total = total
               /\ Len(r.todos) <= f.PageSize
               /\ offset >= total => r.todos = <<>>
               /\ \E q \in Orderings(Listed(f), buildOrderByClause(f)) :
                     r.todos = [i \in 1..(IF upto > offset THEN upto - offset ELSE 0) |->
                                   ScanTodo(rows[q[offset + i]])]

\* List has been called on a tenant with two live rows
C23_Witness ==
    /\ last.op = "List"
    /\ last.err = ErrCountFailed
    /\ \A id \in IDs : LiveRow(rows, id, "t1")

\* what List does instead: whatever the filter and the table, it returns the
\* error of the count query and no rows
C20_ListAlwaysFails ==
    \A f \in ListInputs : last.op = "none" =>
        RepoList(f) = [todos |-> <<>>, total |-> 0, err |-> ErrCountFailed]

\* List has been answered while the tenant of the filter had a live row
C20_Witness ==
    /\ last.op = "List"
    /\ last.err = ErrCountFailed
    /\ \E id \in IDs : rows[id] # NoRow /\ rows[id].DeletedAt = <<>>

---------------------------------------------------------------------------
(* Claims about BatchCreate, checked under SpecBatch *)

\* caller c leaves BatchCreate in this step
BatchReturns(c) == callers[c].pc = "tx" /\ callers'[c].pc = "done"

\* C15: BatchCreate is all-or-nothing: if an insert fails it returns an error
\* and the table holds the rows it held before; if all succeed, all tasks are
\* stored; and while it runs no GetByID or List returns a task of the batch.
C15_BatchAllOrNothing ==
    /\ [][\A c \in Callers :
            /\ (BatchReturns(c) /\ callers'[c].err # OK) => rows' = rows
            /\ (BatchReturns(c) /\ callers'[c].err = OK) =>
                  /\ \A i \in 1..Len(callers[c].batch) :
                        /\ rows[callers[c].batch[i].ID] = NoRow
                        /\ rows'[callers[c].batch[i].ID] = InsertedRow(callers[c].batch[i])
                  /\ \A id \in IDs \ {callers[c].batch[i].ID :
                                          i \in 1..Len(callers[c].batch)} :
                        rows'[id] = rows[id]
            /\ (callers[c].pc = "tx" /\ callers'[c].pc = "tx"
                  /\ callers'[c].next # callers[c].next) => rows' = rows]_vars
    /\ [](\A c \in Callers : \A id \in Pending(c) :
            /\ \A tn \in Tenants : RepoGetByID(id, tn).err = ErrTodoNotFound
            /\ \A f \in ListInputs :
                  \A i \in 1..Len(RepoList(f).todos) : RepoList(f).todos[i].ID # id)

\* the second insert of a batch of two has failed on the id of a row another
\* caller created while the batch was running
C15_Witness ==
    \E c \in Callers :
        /\ callers[c].op = "BatchCreate"
        /\ callers[c].pc = "done"
        /\ callers[c].err = ErrBatchInsertFailed
        /\ callers[c].next = 2
        /\ callers[c].batch[1].ID # callers[c].batch[2].ID
        /\ rows[callers[c].batch[1].ID] = NoRow
        /\ rows[callers[c].batch[2].ID] # NoRow

---------------------------------------------------------------------------
(* Claims about concurrent callers, checked under SpecRace *)

\* the caller has called the repository's Update and has its answer
CalledUpdate(c) == callers[c].pc = "done" /\ callers[c].loaded > 0

Succeeded(c) == callers[c].err \in {OK, "OK"}
Refused(c) == callers[c].err \in {ErrVersionMismatch, "Aborted"}

StoredFieldsOf(row, todo) ==
    /\ row # NoRow
    /\ row.Title = todo.Title
    /\ row.Description = todo.Description
    /\ row.Status = todo.Status
    /\ row.Priority = todo.Priority
    /\ row.AssignedTo = todo.AssignedTo
    /\ row.Tags = todo.Tags

\* c1 and c2 read the same row at the same version, each submitted that
\* version, and nobody but the two wrote the row between a read and a write
Raced(c1, c2) ==
    /\ c1 # c2
    /\ CalledUpdate(c1) /\ CalledUpdate(c2)
    /\ callers[c1].id = callers[c2].id
    /\ callers[c1].loaded = callers[c2].loaded
    /\ callers[c1].todo.Version = callers[c1].loaded
    /\ callers[c2].todo.Version = callers[c2].loaded
    /\ "other" \notin callers[c1].touchedBy \cup callers[c2].touchedBy

\* w's Update succeeded and l's was refused; the row was stored at N + 1 with
\* w's fields, and l's Update left it as w's had stored it
WonOver(w, l) ==
    /\ Succeeded(w) /\ Refused(l)
    /\ callers[w].after.Version = callers[w].loaded + 1
    /\ StoredFieldsOf(callers[w].after, callers[w].todo)
    /\ callers[l].after = callers[w].after

\* C1: of two callers that read a row at version N and both call Update with
\* version N, nobody else writing, exactly one succeeds and the other gets
\* ErrVersionMismatch (Aborted from the handler); the row is then stored at
\* N + 1 with the fields of the one that succeeded, and the refused write
\* left it so.
C1_OneWriterWins ==
    \A c1, c2 \in Callers :
        Raced(c1, c2) => (WonOver(c1, c2) \/ WonOver(c2, c1))

C1_Witness ==
    /\ Raced("c1", "c2")
    /\ callers["c1"].op = "Update" /\ callers["c2"].op = "Update"
    /\ callers["c1"].err = OK
    /\ callers["c2"].err = ErrVersionMismatch
    /\ callers["c1"].todo.Title # callers["c2"].todo.Title
    /\ callers["c1"].loaded = 2
    /\ rows[callers["c1"].id].Version = 3
    /\ rows[callers["c1"].id].Title = callers["c1"].todo.Title

KnownPaths ==
    {"title", "description", "priority", "status", "due_date", "assigned_to", "tags"}

NamesKnownField(mask) ==
    Len(mask) = 0 \/ \E i \in 1..Len(mask) : mask[i] \in KnownPaths

\* C3: an UpdateTodo of an authorized caller on a live row, naming at least
\* one known field with valid values, no other writer between its GetByID
\* and its Update, succeeds: the version it submits is the one it read and
\* the stored version is one greater than before.
C3_UpdateTodoSucceeds ==
    \A c \in Callers :
        (/\ CalledUpdate(c)
         /\ callers[c].op = "UpdateTodo"
         /\ NamesKnownField(callers[c].mask)
         /\ callers[c].touchedBy = {}) =>
            /\ callers[c].err = "OK"
            /\ callers[c].todo.Version = callers[c].loaded
            /\ callers[c].after.Version = callers[c].loaded + 1

\* what the handler does instead: with a known field applied it submits a
\* later version than it read and is refused, the row left as it was
C3_UpdateTodoAborts ==
    \A c \in Callers :
        (/\ CalledUpdate(c)
         /\ callers[c].op = "UpdateTodo"
         /\ NamesKnownField(callers[c].mask)
         /\ callers[c].touchedBy = {}) =>
            /\ callers[c].err = "Aborted"
            /\ callers[c].todo.Version > callers[c].loaded

C3_Witness ==
    \E c \in Callers :
        /\ CalledUpdate(c)
        /\ callers[c].op = "UpdateTodo"
        /\ callers[c].mask = <<"title">>
        /\ callers[c].touchedBy = {}
        /\ callers[c].err = "Aborted"
        /\ callers[c].after.Version = callers[c].loaded

---------------------------------------------------------------------------
(* Claims about ListFilter.Validate and buildOrderByClause, checked under  *)
(* SpecFilter *)

\* C21: Validate never rejects a filter for its page or page size: with a
\* non-empty tenant it returns nil and leaves Page >= 1 and PageSize in 1..100,
\* a Page below 1 as 1, a PageSize below 1 or above 100 as 20, values in range
\* and every other field as they were; with an empty tenant it returns
\* ErrInvalidTenantID; a second Validate changes nothing and returns the same.
C21_ValidateClamps ==
    /\ agg.op = "Validate" =>
          IF agg.arg.TenantID = ""
          THEN agg.err = ErrInvalidTenantID
          ELSE /\ agg.err = OK
               /\ agg.filter.Page >= 1
               /\ agg.filter.PageSize >= 1 /\ agg.filter.PageSize <= 100
               /\ agg.filter.Page = (IF agg.arg.Page < 1 THEN 1 ELSE agg.arg.Page)
               /\ agg.filter.PageSize =
                     (IF agg.arg.PageSize < 1 \/ agg.arg.PageSize > 100
                      THEN 20 ELSE agg.arg.PageSize)
               /\ agg.filter = [agg.arg EXCEPT !.Page = agg.filter.Page,
                                               !.PageSize = agg.filter.PageSize]
    /\ agg.op = "ValidateAgain" =>
          (agg.filter = agg.once.filter /\ agg.err = agg.once.err)

\* a filter with page 0 and page size 150 has been validated twice
C21_Witness ==
    /\ agg.op = "ValidateAgain"
    /\ agg.arg.Page = 0
    /\ agg.arg.PageSize = 150
    /\ agg.filter.Page = 1
    /\ agg.filter.PageSize = 20

SortFields == {"created_at", "updated_at", "due_date", "priority", "status", "title"}

\* C22: for a sort field outside the allow-list the ORDER BY compiled is
\* created_at descending; for a field of the allow-list it is that field in the
\* requested direction; it holds no text of the request but an allow-listed
\* field name.
C22_OrderByFallsBackToCreatedAtDesc ==
    agg.op = "buildOrderByClause" =>
        /\ agg.arg.SortBy \notin SortFields =>
              agg.orderBy = [sortBy |-> "created_at", order |-> "DESC"]
        /\ agg.arg.SortBy \in SortFields =>
              agg.orderBy = [sortBy |-> agg.arg.SortBy,
                             order |-> IF agg.arg.SortAscending THEN "ASC" ELSE "DESC"]
        /\ agg.orderBy.sortBy \in SortFields
        /\ agg.orderBy.order \in {"ASC", "DESC"}

\* C22, the part the code keeps: the field compiled is the requested one when
\* allow-listed and created_at otherwise, the direction is the requested one in
\* both cases, and nothing else of the request is in the clause.
C22_OrderByAllowListed ==
    agg.op = "buildOrderByClause" =>
        /\ agg.orderBy.sortBy =
              (IF agg.arg.SortBy \in SortFields THEN agg.arg.SortBy ELSE "created_at")
        /\ agg.orderBy.order = (IF agg.arg.SortAscending THEN "ASC" ELSE "DESC")

\* an unknown sort field requested ascending has been compiled
C22_Witness ==
    /\ agg.op = "buildOrderByClause"
    /\ agg.arg.SortBy = "owner_id"
    /\ agg.arg.SortAscending
    /\ agg.orderBy = [sortBy |-> "created_at", order |-> "ASC"]

---------------------------------------------------------------------------
(* Claims about the field-mask applier in UpdateTodo, checked under        *)
(* SpecApply *)

\* the step is an UpdateTodo request that reaches applyFieldMaskUpdates
ApplierCalled ==
    /\ callers["c1"].pc # "loaded"
    /\ now' = now
    /\ rows' = rows
    /\ agg'.op = "applyFieldMaskUpdates"
    /\ (agg' # agg \/ callers' # callers)

MutatorCall(existing, updates, path) ==
    CASE path = "title"       -> UpdateTitle(existing, updates.Title)
      [] path = "description" -> UpdateDescription(existing, updates.Description)
      [] path = "priority"    -> UpdatePriority(existing, mapProtoPriority(updates.Priority))
      [] path = "status"      -> UpdateStatus(existing, mapProtoStatus(updates.Status))
      [] path = "due_date"    -> SetDueDate(existing, updates.DueDate)
      [] path = "assigned_to" -> AssignTo(existing, IF updates.AssignedTo = "" THEN <<>>
                                                    ELSE <<updates.AssignedTo>>)
      [] path = "tags"        -> AddTags(existing, updates.Tags)

\* the request carries a value for the field
Carries(updates, path) ==
    CASE path = "due_date"    -> updates.DueDate # <<>>
      [] path = "assigned_to" -> updates.AssignedTo # ""
      [] path = "tags"        -> Len(updates.Tags) > 0
      [] OTHER                -> TRUE

\* C25: for a known field named in the mask the applier calls the field's
\* mutator with the value of the request, an empty or absent value included:
\* assigned_to with an empty value unassigns, due_date with no value clears the
\* due date.
C25_NamedFieldCallsMutator ==
    [][(ApplierCalled /\ Len(agg'.arg.UpdateMask) = 1
            /\ agg'.arg.UpdateMask[1] \in KnownPaths) =>
          LET r == MutatorCall(agg'.before, agg'.arg.Todo, agg'.arg.UpdateMask[1])
          IN agg'.todo = r.todo /\ agg'.err = r.err]_vars

\* C25, the part the applier keeps: the mutator is called with the value of
\* the request when the request carries one; a due date, assignee or tag list
\* the request does not carry leaves the task as it is and raises no error.
C25_CarriedValueCallsMutator ==
    [][(ApplierCalled /\ Len(agg'.arg.UpdateMask) = 1
            /\ agg'.arg.UpdateMask[1] \in KnownPaths) =>
          LET r == MutatorCall(agg'.before, agg'.arg.Todo, agg'.arg.UpdateMask[1])
          IN IF Carries(agg'.arg.Todo, agg'.arg.UpdateMask[1])
             THEN agg'.todo = r.todo /\ agg'.err = r.err
             ELSE agg'.todo = agg'.before /\ agg'.err = OK]_vars

\* assigned_to was named with an empty value on a task assigned to u2, and
\* the task is still assigned to u2
C25_Witness ==
    /\ agg.op = "applyFieldMaskUpdates"
    /\ agg.arg = [Todo |-> ProtoEmpty, UpdateMask |-> <<"assigned_to">>]
    /\ agg.before.AssignedTo = <<"u2">>
    /\ agg.todo.AssignedTo = <<"u2">>
    /\ agg.err = OK

\* C26: the applier takes the names of the mask in order and stops at the
\* first mutator that fails, returning its error: the fields named before it
\* stay mutated, those named after it are not applied; a name outside the
\* seven known fields changes nothing and raises no error; and an UpdateTodo
\* whose applier fails ends with InvalidArgument without a repository write,
\* the stored row being as it was read.
C26_ApplierFailsFast ==
    /\ [][(ApplierCalled /\ Len(agg'.arg.UpdateMask) = 2) =>
              LET p == agg'.arg.UpdateMask[1]
                  q == agg'.arg.UpdateMask[2]
                  skip(t) == [todo |-> t, err |-> OK]
                  r1 == IF p \in KnownPaths /\ Carries(agg'.arg.Todo, p)
                        THEN MutatorCall(agg'.before, agg'.arg.Todo, p)
                        ELSE skip(agg'.before)
                  r2 == IF q \in KnownPaths /\ Carries(agg'.arg.Todo, q)
                        THEN MutatorCall(r1.todo, agg'.arg.Todo, q)
                        ELSE skip(r1.todo)
              IN IF r1.err # OK
                 THEN agg'.err = r1.err /\ agg'.todo = agg'.before
                 ELSE agg'.err = r2.err /\ agg'.todo = r2.todo /\
                      (r2.err # OK => agg'.todo = r1.todo)]_vars
    /\ [][(ApplierCalled /\ agg'.arg.UpdateMask = <<"owner_id">>) =>
              (agg'.todo = agg'.before /\ agg'.err = OK)]_vars
    /\ [][ApplierCalled =>
              /\ agg'.err # OK <=> callers'["c1"].err = "InvalidArgument"
              /\ agg'.err # OK => callers'["c1"].pc = "done"]_vars
    /\ []((callers["c1"].pc = "done" /\ callers["c1"].err = "InvalidArgument") =>
              ScanTodo(rows[callers["c1"].id]) = agg.before)

\* title and status were named, the title was set and the status refused:
\* the request has ended with InvalidArgument, the Todo in hand has the new
\* title, the stored row the old one
C26_Witness ==
    /\ agg.op = "applyFieldMaskUpdates"
    /\ agg.arg = [Todo |-> ProtoHigh, UpdateMask |-> <<"title", "status">>]
    /\ agg.before.Status = StatusCompleted
    /\ agg.err = ErrInvalidStatusTransition
    /\ agg.todo.Title = ProtoHigh.Title
    /\ agg.todo.Version = agg.before.Version + 1
    /\ callers["c1"].pc = "done"
    /\ callers["c1"].err = "InvalidArgument"
    /\ rows["id1"].Title = agg.before.Title

---------------------------------------------------------------------------
(* Claims about the handlers beside concurrent deletes, checked under      *)
(* SpecDelete *)

\* caller c's request ends in this step
Ends(c) ==
    /\ callers'[c] # callers[c]
    /\ callers'[c].pc = "done"
    /\ callers'[c].op \in {"GetTodo", "UpdateTodo", "DeleteTodo"}
    /\ callers'[c].id # ""

\* no live row matches the id of c's request in the tenant of its user, as
\* the handler's last repository call of this step finds it: in the tenant of
\* the Todo the handler holds, or before it holds one in no tenant at all
NoLiveRow(c) ==
    IF callers[c].pc = "loaded"
    THEN ~LiveRow(rows, callers[c].id, callers[c].todo.TenantID)
    ELSE \A tn \in Tenants : ~LiveRow(rows, callers'[c].id, tn)

\* C17: a GetTodo, UpdateTodo or DeleteTodo request that ends while no live
\* row matches its id in the caller's tenant answers NotFound, also when the
\* row was soft-deleted between the handler's GetByID and its Delete or Update.
C17_NotFoundSurfaced ==
    [][\A c \in Callers : (Ends(c) /\ NoLiveRow(c)) => callers'[c].err = "NotFound"]_vars

\* C17, the part the handlers keep: a request whose GetByID finds no live row
\* answers NotFound and changes no row.
C17_ReadMissIsNotFound ==
    [][\A c \in Callers :
          (Ends(c) /\ callers[c].pc # "loaded" /\ NoLiveRow(c)) =>
              (callers'[c].err = "NotFound" /\ rows' = rows)]_vars

\* a DeleteTodo whose row another caller deleted after the handler read it
\* has answered Internal
C17_Witness ==
    \E c \in Callers :
        /\ callers[c].op = "DeleteTodo"
        /\ callers[c].pc = "done"
        /\ callers[c].err = "Internal"
        /\ callers[c].touchedBy # {}
        /\ Deleted(callers[c].id)

---------------------------------------------------------------------------
(* Claims about authorization in the handlers that write, checked under    *)
(* SpecAuth *)

\* C27: in CreateTodo, UpdateTodo and DeleteTodo a negative CanCreate,
\* CanUpdate or CanDelete ends the request with PermissionDenied before any
\* mutator is called or any row written: the caller holds no Todo, no write of
\* the request follows, and the table is as it was before the request.
C27_AuthorizationBeforeMutation ==
    [][\A c \in Callers : callers'[c] # callers[c] =>
          \A userCtx \in AuthContexts, id \in RaceIDs :
              /\ callers'[c].op = "CreateTodo" =>
                    \A req \in CreateRequests :
                        (CreateTodo(c, userCtx, req, id)
                            /\ validateCreateRequest(req) = OK
                            /\ ~CanCreate(userCtx)) =>
                            /\ callers'[c].err = "PermissionDenied"
                            /\ callers'[c].pc = "done"
                            /\ rows' = rows
              /\ (callers'[c].op = "UpdateTodo" /\ callers[c].pc # "loaded") =>
                    \A r \in AuthUpdates :
                        (UpdateTodoRead(c, userCtx, [Id |-> id, Todo |-> r.Todo,
                                                     UpdateMask |-> r.UpdateMask])
                            /\ LiveRow(rows, id, userCtx.TenantID)
                            /\ ~CanUpdate(userCtx, ScanTodo(rows[id]))) =>
                            /\ callers'[c].err = "PermissionDenied"
                            /\ callers'[c].pc = "done"
                            /\ callers'[c].todo = NoTodo
                            /\ rows' = rows
              /\ (callers'[c].op = "DeleteTodo" /\ callers[c].pc # "loaded"
                    /\ DeleteTodoRead(c, userCtx, id)
                    /\ LiveRow(rows, id, userCtx.TenantID)
                    /\ ~CanDelete(userCtx, ScanTodo(rows[id]))) =>
                    /\ callers'[c].err = "PermissionDenied"
                    /\ callers'[c].pc = "done"
                    /\ callers'[c].todo = NoTodo
                    /\ rows' = rows]_vars

\* a user of the tenant who neither owns the task nor is an admin has been
\* refused its deletion, a user without role the creation of a task, and the
\* task is stored as its owner created it
C27_Witness ==
    /\ callers["c1"].op = "DeleteTodo"
    /\ callers["c1"].err = "PermissionDenied"
    /\ callers["c2"].op = "CreateTodo"
    /\ callers["c2"].err = "PermissionDenied"
    /\ LiveRow(rows, "id1", "t1")
    /\ rows["id1"].Version = 1

\* C28: a negative capability check is answered with PermissionDenied, never
\* by narrowing the result: a ListTodos request of a caller for whom CanReadAll
\* is false ends with PermissionDenied.
C28_ListTodosDenied ==
    [][\A c \in Callers, userCtx \in AuthContexts, req \in ListRequests :
          (ListTodos(c, userCtx, req) /\ ~CanReadAll(userCtx)) =>
              callers'[c].err = "PermissionDenied"]_vars

\* what ListTodos does instead: for a caller who is no admin it restricts the
\* filter to the caller's own tasks and goes on to List, and no ListTodos
\* request ends with PermissionDenied.
C28_ListTodosNarrows ==
    [][\A c \in Callers, userCtx \in AuthContexts, req \in ListRequests :
          ListTodos(c, userCtx, req) =>
              /\ callers'[c].err # "PermissionDenied"
              /\ ~CanReadAll(userCtx) =>
                    /\ listFilter(userCtx, req).OwnerID = <<userCtx.UserID>>
                    /\ callers'[c].err = listTodosCode(userCtx, req)]_vars

\* a ListTodos request has ended with another code than PermissionDenied
\* while a task is stored
C28_Witness ==
    /\ callers["c1"].op = "ListTodos"
    /\ callers["c1"].pc = "done"
    /\ callers["c1"].err = "Internal"
    /\ LiveRow(rows, "id1", "t1")

---------------------------------------------------------------------------
(* Claims about reload and retry, checked under SpecRetry *)

\* caller c's Update returns in this step
UpdateReturns(c) ==
    /\ callers[c].pc = "loaded"
    /\ callers[c].op = "Update"
    /\ callers'[c].pc = "done"

\* C29: a caller whose Update of a live task was refused with
\* ErrVersionMismatch and who reloads the task and calls Update with the
\* reloaded version, nobody writing the row in between, succeeds: the row is
\* stored with its fields at the reloaded version + 1.  The repository does
\* not retry: a refused Update returns the error and leaves the row as it is.
C29_ReloadAndRetrySucceeds ==
    [][\A c \in Callers : UpdateReturns(c) =>
          /\ (callers[c].attempt > 0 /\ callers[c].touchedBy = {}) =>
                /\ callers'[c].err = OK
                /\ rows'[callers[c].id].Version = callers[c].loaded + 1
                /\ StoredFieldsOf(rows'[callers[c].id], callers'[c].todo)
          /\ callers'[c].err # OK =>
                (callers'[c].err = ErrVersionMismatch /\ rows' = rows)]_vars

\* c2 lost against c1, reloaded the row at the version c1 had stored, and
\* its second Update has been stored
C29_Witness ==
    /\ callers["c2"].op = "Update"
    /\ callers["c2"].pc = "done"
    /\ callers["c2"].attempt = 1
    /\ callers["c2"].err = OK
    /\ callers["c2"].loaded = 2
    /\ callers["c1"].err = OK
    /\ callers["c1"].loaded = 1
    /\ rows["id1"].Version = 3
    /\ rows["id1"].Title = callers["c2"].todo.Title
    /\ callers["c1"].todo.Title # callers["c2"].todo.Title

---------------------------------------------------------------------------
(* Claims about the two reads of List, checked under SpecList *)

\* C30: List reads the count and then the page, each read returning what a
\* committed state of the table holds, the two not atomic together: the count
\* read returns the number of rows matching the filter when it is taken, and
\* List goes on to the page read, before which other callers' Creates and
\* Deletes can commit.
C30_ListReadsCountThenPage ==
    [][\A c \in Callers :
          (callers'[c] # callers[c] /\ callers'[c].op = "List") =>
              /\ callers'[c].err = OK
              /\ callers'[c].pc = "counted"
              /\ callers'[c].total = Cardinality(Listed(callers'[c].filter[1]))]_vars

\* what List does instead: the count read fails on every table, the call
\* returns its error, and no List call is ever between its two reads.
C30_ListEndsAtCount ==
    \A c \in Callers :
        /\ callers[c].pc # "counted"
        /\ callers[c].op = "List" =>
              (callers[c].pc = "done" /\ callers[c].err = ErrCountFailed)

\* a List call has returned from its count read on a table with a live and
\* a deleted row
C30_Witness ==
    /\ callers["c1"].op = "List"
    /\ callers["c1"].pc = "done"
    /\ callers["c1"].err = ErrCountFailed
    /\ LiveRow(rows, "id1", "t1")
    /\ Deleted("id2")

---------------------------------------------------------------------------
(* What the read handlers hand out.                                        *)

\* the task is of the caller's tenant and the caller is an admin, its owner
\* or its assignee
MayRead(userCtx, todo) ==
    /\ todo.TenantID = userCtx.TenantID
    /\ \/ \E i \in 1..Len(userCtx.Roles) : userCtx.Roles[i] = "admin"
       \/ todo.OwnerID = userCtx.UserID
       \/ todo.AssignedTo = <<userCtx.UserID>>

IsAdmin(userCtx) == \E i \in 1..Len(userCtx.Roles) : userCtx.Roles[i] = "admin"

\* C31: every task GetTodo or ListTodos returns to a caller is one the caller
\* may read (CanRead: same tenant, and admin, owner or assignee); for a caller
\* who is not an admin the filter of ListTodos carries the caller as owner
\* whatever the request sets, so the rows it selects and the tasks it returns
\* are the caller's own.
C31_ReturnedTasksAreReadable ==
    [][\A c \in Callers : callers'[c] # callers[c] =>
          \A userCtx \in AuthContexts :
              /\ callers'[c].op = "GetTodo" =>
                    \A id \in RaceIDs \cup {""} :
                        (GetTodo(c, userCtx, id) /\ callers'[c].err = "OK") =>
                            /\ callers'[c].todo # NoTodo
                            /\ callers'[c].todo = ScanTodo(rows[id])
                            /\ CanRead(userCtx, callers'[c].todo)
                            /\ MayRead(userCtx, callers'[c].todo)
              /\ callers'[c].op = "ListTodos" =>
                    \A req \in ListRequests :
                        ListTodos(c, userCtx, req) =>
                            LET f == listFilter(userCtx, req)
                                t == listTodosTodos(userCtx, req)
                            IN /\ f.TenantID = userCtx.TenantID
                               /\ \A i \in 1..Len(t) : MayRead(userCtx, t[i])
                               /\ \A id \in Listed(f) :
                                      MayRead(userCtx, ScanTodo(rows[id]))
                               /\ ~IsAdmin(userCtx) =>
                                      /\ f.OwnerID = <<userCtx.UserID>>
                                      /\ \A i \in 1..Len(t) :
                                             t[i].OwnerID = userCtx.UserID
                                      /\ \A id \in Listed(f) :
                                             rows[id].OwnerID = userCtx.UserID]_vars

\* one caller has been handed the task by GetTodo while another caller of the
\* same request was refused it, and the task has an assignee who is not its
\* owner
C31_Witness ==
    /\ callers["c1"].op = "GetTodo"
    /\ callers["c1"].err = "OK"
    /\ callers["c1"].todo # NoTodo
    /\ callers["c2"].op = "GetTodo"
    /\ callers["c2"].err = "PermissionDenied"
    /\ LiveRow(rows, "id1", "t1")
    /\ rows["id1"].AssignedTo # <<>>
    /\ rows["id1"].AssignedTo # <<rows["id1"].OwnerID>>

---------------------------------------------------------------------------
(* The Authorizer's three capability checks on a task, called with every   *)
(* pairing of a caller (user, tenant, roles) and a task (tenant, owner,     *)
(* assignee); the call and its answer are put on record in agg.             *)

CanTodos ==
    {[FreshTodo("id1", tn) EXCEPT !.OwnerID = o, !.AssignedTo = a] :
        tn \in Tenants, o \in {"u1", "u2"}, a \in {<<>>, <<"u1">>, <<"u2">>}}

NoCan == [op |-> "none", user |-> [UserID |-> "", TenantID |-> "", Roles |-> <<>>],
          todo |-> NoTodo, ret |-> FALSE]

CallCanRead(userCtx, todo) ==
    /\ agg' = [op |-> "CanRead", user |-> userCtx, todo |-> todo,
               ret |-> CanRead(userCtx, todo)]
    /\ UNCHANGED <<now, rows, last, callers>>

CallCanUpdate(userCtx, todo) ==
    /\ agg' = [op |-> "CanUpdate", user |-> userCtx, todo |-> todo,
               ret |-> CanUpdate(userCtx, todo)]
    /\ UNCHANGED <<now, rows, last, callers>>

CallCanDelete(userCtx, todo) ==
    /\ agg' = [op |-> "CanDelete", user |-> userCtx, todo |-> todo,
               ret |-> CanDelete(userCtx, todo)]
    /\ UNCHANGED <<now, rows, last, callers>>

InitCan ==
    /\ now = 0
    /\ agg = NoCan
    /\ rows = NoRows
    /\ last = NoCall
    /\ callers = [c \in Callers |-> NoRequest]

NextCan ==
    \/ \E userCtx \in AuthContexts, todo \in CanTodos : CallCanRead(userCtx, todo)
    \/ \E userCtx \in AuthContexts, todo \in CanTodos : CallCanUpdate(userCtx, todo)
    \/ \E userCtx \in AuthContexts, todo \in CanTodos : CallCanDelete(userCtx, todo)

SpecCan == InitCan /\ [][NextCan]_vars

\* C32: CanRead, CanUpdate and CanDelete answer false for every caller whose
\* tenant is not the task's, admins included; within the tenant CanRead and
\* CanUpdate answer true exactly for an admin, the owner or the assignee, and
\* CanDelete exactly for an admin or the owner.
C32_CapabilityTable ==
    agg.op \in {"CanRead", "CanUpdate", "CanDelete"} =>
        LET sameTenant == agg.user.TenantID = agg.todo.TenantID
            owner == agg.todo.OwnerID = agg.user.UserID
            assignee == agg.todo.AssignedTo = <<agg.user.UserID>>
        IN /\ ~sameTenant => agg.ret = FALSE
           /\ (sameTenant /\ agg.op \in {"CanRead", "CanUpdate"}) =>
                  agg.ret = (IsAdmin(agg.user) \/ owner \/ assignee)
           /\ (sameTenant /\ agg.op = "CanDelete") =>
                  agg.ret = (IsAdmin(agg.user) \/ owner)

\* CanDelete has refused the assignee of a task of the caller's tenant, who
\* is neither its owner nor an admin
C32_Witness ==
    /\ agg.op = "CanDelete"
    /\ agg.ret = FALSE
    /\ agg.user.TenantID = agg.todo.TenantID
    /\ agg.todo.AssignedTo = <<agg.user.UserID>>
    /\ agg.todo.OwnerID # agg.user.UserID
    /\ ~IsAdmin(agg.user)

---------------------------------------------------------------------------
(* The row CreateTodo stores.                                              *)

\* the optional fields a CreateTodoRequest supplies: due date, tags, assignee
Supplied(req) ==
    (IF req.DueDate # <<>> THEN 1 ELSE 0) + (IF Len(req.Tags) > 0 THEN 1 ELSE 0)
        + (IF req.AssignedTo # "" THEN 1 ELSE 0)

\* C33: the row a successful CreateTodo stores has status Pending, the
\* caller's user id as owner, the caller's tenant as tenant and version 1 plus
\* the number of optional fields the request supplies (due date, tags,
\* assignee), so between 1 and 4; when an optional mutator fails (due date
\* gone by, more tags than allowed) the request fails and nothing is stored.
C33_CreatedRow ==
    [][\A c \in Callers :
          (callers'[c] # callers[c] /\ callers'[c].op = "CreateTodo") =>
              \A userCtx \in AuthContexts, req \in CreateRequests, id \in RaceIDs :
                  CreateTodo(c, userCtx, req, id) =>
                      /\ callers'[c].err = "OK" =>
                            /\ rows'[id] # NoRow
                            /\ rows'[id].Status = StatusPending
                            /\ rows'[id].OwnerID = userCtx.UserID
                            /\ rows'[id].TenantID = userCtx.TenantID
                            /\ rows'[id].Version = 1 + Supplied(req)
                            /\ rows'[id].Version \in 1..4
                            /\ rows'[id].DeletedAt = <<>>
                      /\ callers'[c].err # "OK" => rows' = rows
                      /\ ((req.DueDate # <<>> /\ req.DueDate[1] < now)
                             \/ Len(req.Tags) > MaxTags) =>
                            /\ callers'[c].err # "OK"
                            /\ rows' = rows]_vars

\* a request with due date, tag and assignee has stored a row of version 4,
\* after a request whose optional mutator failed stored none
C33_Witness ==
    /\ callers["c1"].op = "CreateTodo"
    /\ callers["c1"].err = "OK"
    /\ callers["c1"].after # NoRow
    /\ callers["c1"].after.Version = 4
    /\ callers["c1"].after.DueDate # <<>>
    /\ callers["c2"].op = "CreateTodo"
    /\ callers["c2"].err = "InvalidArgument"
    /\ callers["c2"].after = NoRow
    /\ rows["id1"] = callers["c1"].after

---------------------------------------------------------------------------
(* Repository Delete and the version.                                      *)

\* C34: Delete is not version-checked and does not touch the version: it
\* succeeds on every live row of the tenant whatever the row's version, also
\* when an Update has just raised it, and changes only deleted_at and
\* updated_at of that row; version, status and every other field and row stay
\* as they were.  On any other row it fails and changes nothing.
C34_DeleteLeavesVersion ==
    [][(last.op = "none" /\ last'.op = "Delete") =>
          \A id \in IDs, tn \in Tenants :
              Delete(id, tn) =>
                  /\ (last'.err = OK) = LiveRow(rows, id, tn)
                  /\ last'.err = OK =>
                        /\ rows'[id].DeletedAt = <<now>>
                        /\ rows'[id].UpdatedAt = now
                        /\ rows'[id].Version = rows[id].Version
                        /\ rows'[id].Status = rows[id].Status
                        /\ rows' = [rows EXCEPT ![id] =
                                       [@ EXCEPT !.DeletedAt = rows'[id].DeletedAt,
                                                 !.UpdatedAt = rows'[id].UpdatedAt]]
                  /\ last'.err # OK => rows' = rows]_vars

\* Delete has succeeded on a row whose version an Update had raised, and the
\* row still carries that version
C34_Witness ==
    /\ last.op = "Delete"
    /\ last.err = OK
    /\ rows[last.id] # NoRow
    /\ rows[last.id].DeletedAt # <<>>
    /\ rows[last.id].Version = 2

---------------------------------------------------------------------------
(* The version in the UpdateTodoResponse.  The handler answers with         *)
(* mapDomainToProto(existing): the Todo it read, as the applier left it.    *)
(* Update stores version + 1 and writes nothing back into the Todo.         *)

\* C35: after every successful UpdateTodo the version in the response equals
\* the version of the stored row at the moment the write committed.
C35_ResponseCarriesStoredVersion ==
    \A c \in Callers :
        (/\ callers[c].op = "UpdateTodo"
         /\ callers[c].pc = "done"
         /\ callers[c].err = "OK") =>
            callers[c].todo.Version = callers[c].after.Version

\* what the handler answers instead: the version it submitted, which is one
\* less than the version the write stored
C35_ResponseOneBehind ==
    \A c \in Callers :
        (/\ callers[c].op = "UpdateTodo"
         /\ callers[c].pc = "done"
         /\ callers[c].err = "OK") =>
            /\ callers[c].after # NoRow
            /\ callers[c].todo.Version + 1 = callers[c].after.Version

\* an UpdateTodo has succeeded on a row nobody else wrote: the row is stored
\* with version 2 and the response carries version 1
C35_Witness ==
    /\ callers["c1"].op = "UpdateTodo"
    /\ callers["c1"].pc = "done"
    /\ callers["c1"].err = "OK"
    /\ callers["c1"].touchedBy = {}
    /\ callers["c1"].todo.Version = 1
    /\ callers["c1"].after.Version = 2
    /\ rows["id1"] = callers["c1"].after

---------------------------------------------------------------------------
(* The priority of an update without field mask.                           *)

\* the priority a Todo message asks for: the named one, Medium for
\* unspecified and for every value without a name
AskedPriority(p) ==
    IF p = "TODO_PRIORITY_LOW" THEN PriorityLow
    ELSE IF p = "TODO_PRIORITY_HIGH" THEN PriorityHigh
    ELSE IF p = "TODO_PRIORITY_CRITICAL" THEN PriorityCritical
    ELSE PriorityMedium

\* C36: an update without field mask always sets the priority: an unspecified
\* or unknown priority of the request is mapped to Medium, so the task's
\* priority becomes Medium whatever it was before; the applier never fails
\* with ErrInvalidPriority, with or without mask; and an update without mask
\* that succeeds raises the in-memory version by exactly 3.
C36_NoMaskSetsPriority ==
    [][ApplierCalled =>
          /\ agg'.err # ErrInvalidPriority
          /\ (agg'.arg.UpdateMask = <<>> /\ agg'.err = OK) =>
                /\ agg'.todo.Priority = AskedPriority(agg'.arg.Todo.Priority)
                /\ agg'.arg.Todo.Priority \notin
                       {"TODO_PRIORITY_LOW", "TODO_PRIORITY_MEDIUM",
                        "TODO_PRIORITY_HIGH", "TODO_PRIORITY_CRITICAL"} =>
                       agg'.todo.Priority = PriorityMedium
                /\ agg'.todo.Version = agg'.before.Version + 3
          /\ (agg'.arg.UpdateMask = <<>> /\ agg'.err # OK) =>
                /\ agg'.err \in {ErrEmptyTitle, ErrTitleTooLong, ErrDescriptionTooLong}
                /\ agg'.todo.Priority = agg'.before.Priority]_vars

\* a request without mask whose priority is a value without a name has been
\* applied to a task of priority High, which now has priority Medium
C36_Witness ==
    /\ agg.op = "applyFieldMaskUpdates"
    /\ agg.arg = [Todo |-> ProtoUnknown, UpdateMask |-> <<>>]
    /\ agg.err = OK
    /\ agg.before.Priority = PriorityHigh
    /\ agg.todo.Priority = PriorityMedium
    /\ agg.todo.Version = agg.before.Version + 3

---------------------------------------------------------------------------
(* The unary interceptor chain of initGRPCServer: Recovery, Logging,       *)
(* Metrics, Auth, then the handler.  Each request runs on its own           *)
(* goroutine; a request is a record in callers that says where in the       *)
(* chain it is, and agg holds what the requests share: the process, the     *)
(* number of requests taken so far and the three Prometheus collectors.     *)
(* One task, id1 of tenant t1, is stored.                                   *)

MaxRequests == 3

GetTodoMethod == "/todo.v1.TodoService/GetTodo"
HealthCheck == "/grpc.health.v1.Health/Check"
Methods == {GetTodoMethod, HealthCheck}

publicMethods == {"/grpc.health.v1.Health/Check", "/grpc.health.v1.Health/Watch"}

JWTSecret == "secret"

\* a claim of the token: absent, or a value of some JSON kind
NoClaim == <<>>
StringClaim(v) == <<[kind |-> "string", val |-> v]>>
ListClaim(v) == <<[kind |-> "list", val |-> v]>>

UserClaims ==
    [user_id |-> StringClaim("u1"), tenant_id |-> StringClaim("t1"),
     roles |-> ListClaim(<<[kind |-> "string", val |-> "user"],
                           [kind |-> "number", val |-> "7"]>>)]
AdminClaims ==
    [user_id |-> StringClaim("u1"), tenant_id |-> StringClaim("t2"),
     roles |-> ListClaim(<<[kind |-> "string", val |-> "admin"]>>)]

\* tokens: signed with the server's secret; signed with another key; with
\* signing method none; expired; signed but without tenant_id claim; signed,
\* roles not a list; not a token at all
GoodToken ==
    [wellFormed |-> TRUE, alg |-> "HS256", key |-> JWTSecret, expired |-> FALSE,
     claims |-> UserClaims]
OtherTenantToken == [GoodToken EXCEPT !.claims = AdminClaims]
ForgedToken == [OtherTenantToken EXCEPT !.key = "guess"]
UnsignedToken == [OtherTenantToken EXCEPT !.alg = "none", !.key = ""]
ExpiredToken == [GoodToken EXCEPT !.expired = TRUE]
NoTenantToken == [GoodToken EXCEPT !.claims = [UserClaims EXCEPT !.tenant_id = NoClaim]]
RolesStringToken ==
    [GoodToken EXCEPT !.claims = [UserClaims EXCEPT !.roles = StringClaim("admin")]]
Garbage ==
    [wellFormed |-> FALSE, alg |-> "", key |-> "", expired |-> FALSE,
     claims |-> [user_id |-> NoClaim, tenant_id |-> NoClaim, roles |-> NoClaim]]

\* an authorization header is what it starts with and the token that follows,
\* if one follows
Bearer(token) == [prefix |-> "Bearer ", token |-> <<token>>]
Bare(token) == [prefix |-> "", token |-> <<token>>]
BearerOnly == [prefix |-> "Bearer ", token |-> <<>>]

\* strings.TrimPrefix(h, "Bearer ")
TrimPrefix(h) == IF h.prefix = "Bearer " THEN [h EXCEPT !.prefix = ""] ELSE h

\* jwt.Parse with the key function of AuthInterceptor
jwtParse(tokenString) ==
    LET token == IF tokenString.prefix = "" /\ Len(tokenString.token) = 1
                 THEN tokenString.token[1] ELSE Garbage IN
    IF ~token.wellFormed THEN [err |-> "malformed", valid |-> FALSE, claims |-> token.claims]
    ELSE IF token.alg \notin {"HS256", "HS384", "HS512"}
         THEN [err |-> "invalid token signing method", valid |-> FALSE,
               claims |-> token.claims]
    ELSE IF token.key # JWTSecret
         THEN [err |-> "signature is invalid", valid |-> FALSE, claims |-> token.claims]
    ELSE IF token.expired
         THEN [err |-> "token is expired", valid |-> FALSE, claims |-> token.claims]
    ELSE [err |-> OK, valid |-> TRUE, claims |-> token.claims]

extractRoles(rolesInterface) ==
    IF rolesInterface = NoClaim THEN <<>>
    ELSE IF rolesInterface[1].kind # "list" THEN <<>>
    ELSE LET strings == SelectSeq(rolesInterface[1].val, LAMBDA role : role.kind = "string")
         IN [i \in 1..Len(strings) |-> strings[i].val]

\* claims[k].(string) panics unless the claim is there and a string
IsString(claim) == claim # NoClaim /\ claim[1].kind = "string"

NoMetadata == [present |-> FALSE, authorization |-> <<>>]
Metadata(headers) == [present |-> TRUE, authorization |-> headers]

\* what AuthInterceptor does with a request: hands it to the handler with or
\* without a user context, answers it, or panics
Unauthenticated(msg) ==
    [next |-> "return", code |-> "Unauthenticated", msg |-> msg, userCtx |-> <<>>]

\* AuthInterceptor that parses whatever TrimPrefix leaves
AuthInterceptorAnyHeader(method, md) ==
    LET authHeader == md.authorization
        parsed == jwtParse(TrimPrefix(authHeader[1]))
    IN IF method \in publicMethods
       THEN [next |-> "handler", code |-> "", msg |-> "", userCtx |-> <<>>]
       ELSE IF ~md.present THEN Unauthenticated("missing metadata")
       ELSE IF Len(authHeader) = 0 THEN Unauthenticated("missing authorization header")
       ELSE IF parsed.err # OK \/ ~parsed.valid THEN Unauthenticated("invalid token")
       ELSE IF ~IsString(parsed.claims.user_id) \/ ~IsString(parsed.claims.tenant_id)
            THEN [next |-> "panic", code |-> "", msg |-> "", userCtx |-> <<>>]
       ELSE [next |-> "handler", code |-> "", msg |-> "",
             userCtx |-> <<[UserID |-> parsed.claims.user_id[1].val,
                            TenantID |-> parsed.claims.tenant_id[1].val,
                            Roles |-> extractRoles(parsed.claims.roles)]>>]

AuthInterceptor(method, md) ==
    LET authHeader == md.authorization
        tokenString == TrimPrefix(authHeader[1])
        parsed == jwtParse(tokenString)
    IN IF method \in publicMethods
       THEN [next |-> "handler", code |-> "", msg |-> "", userCtx |-> <<>>]
       ELSE IF ~md.present THEN Unauthenticated("missing metadata")
       ELSE IF Len(authHeader) = 0 THEN Unauthenticated("missing authorization header")
       ELSE IF tokenString = authHeader[1]
            THEN Unauthenticated("invalid authorization header format")
       ELSE IF parsed.err # OK \/ ~parsed.valid THEN Unauthenticated("invalid token")
       ELSE IF ~IsString(parsed.claims.user_id) \/ ~IsString(parsed.claims.tenant_id)
            THEN [next |-> "panic", code |-> "", msg |-> "", userCtx |-> <<>>]
       ELSE [next |-> "handler", code |-> "", msg |-> "",
             userCtx |-> <<[UserID |-> parsed.claims.user_id[1].val,
                            TenantID |-> parsed.claims.tenant_id[1].val,
                            Roles |-> extractRoles(parsed.claims.roles)]>>]

\* the handler of the method, called with the context AuthInterceptor made:
\* GetTodo of the service, Check of the health server
handlerOutcome(method, ctxUser, id) ==
    IF method = HealthCheck THEN [code |-> "OK", resp |-> NoTodo, tenant |-> ""]
    ELSE IF ctxUser = <<>> THEN [code |-> "Unauthenticated", resp |-> NoTodo, tenant |-> ""]
    ELSE LET userCtx == ctxUser[1]
             g == RepoGetByID(id, userCtx.TenantID)
         IN IF id = "" THEN [code |-> "InvalidArgument", resp |-> NoTodo, tenant |-> ""]
            ELSE IF g.err = ErrTodoNotFound
                 THEN [code |-> "NotFound", resp |-> NoTodo, tenant |-> userCtx.TenantID]
            ELSE IF ~CanRead(userCtx, g.todo)
                 THEN [code |-> "PermissionDenied", resp |-> NoTodo,
                       tenant |-> userCtx.TenantID]
            ELSE [code |-> "OK", resp |-> g.todo, tenant |-> userCtx.TenantID]

NoChainRequest ==
    [pc |-> "idle", method |-> "", md |-> NoMetadata, id |-> "", userCtx |-> <<>>,
     panic |-> "", code |-> "", resp |-> NoTodo, handled |-> FALSE, tenant |-> ""]

ChainCodes == {"OK", "Unauthenticated", "NotFound", "PermissionDenied", "InvalidArgument"}

NoServer ==
    [up |-> TRUE, arrived |-> 0,
     grpcActiveRequests |-> [mth \in Methods |-> 0],
     grpcRequestDuration |-> [mth \in Methods |-> 0],
     grpcRequestsTotal |-> [k \in Methods \X ChainCodes |-> 0]]

\* the metadata of the requests sent to the service, and to the health check
ChainMetadata ==
    {NoMetadata, Metadata(<<>>), Metadata(<<Bare(GoodToken)>>), Metadata(<<BearerOnly>>)}
        \cup {Metadata(<<Bearer(t)>>) :
                t \in {GoodToken, OtherTenantToken, ForgedToken, UnsignedToken,
                       ExpiredToken, NoTenantToken, RolesStringToken, Garbage}}

ChainRequests ==
    {[method |-> GetTodoMethod, md |-> md, id |-> "id1"] : md \in ChainMetadata}
        \cup {[method |-> HealthCheck, md |-> md, id |-> ""] :
                md \in {NoMetadata, Metadata(<<Bearer(ForgedToken)>>)}}

\* a request arrives and enters RecoveryInterceptor, which sets up its
\* deferred function and calls on
RecoveryEnter(c, req) ==
    /\ agg.up
    /\ callers[c].pc \in {"idle", "done"}
    /\ agg.arrived < MaxRequests
    /\ agg' = [agg EXCEPT !.arrived = @ + 1]
    /\ callers' = [callers EXCEPT ![c] =
          [NoChainRequest EXCEPT !.pc = "logging", !.method = req.method,
                                 !.md = req.md, !.id = req.id]]
    /\ UNCHANGED <<now, rows, last>>

\* LoggingInterceptor up to its call of the next handler
LoggingEnter(c) ==
    /\ agg.up
    /\ callers[c].pc = "logging"
    /\ callers' = [callers EXCEPT ![c] = [@ EXCEPT !.pc = "metrics"]]
    /\ UNCHANGED <<now, agg, rows, last>>

\* MetricsInterceptor up to its call of the next handler: Inc, defer Dec
MetricsEnter(c) ==
    /\ agg.up
    /\ callers[c].pc = "metrics"
    /\ agg' = [agg EXCEPT !.grpcActiveRequests[callers[c].method] = @ + 1]
    /\ callers' = [callers EXCEPT ![c] = [@ EXCEPT !.pc = "auth"]]
    /\ UNCHANGED <<now, rows, last>>

AuthStep(c) ==
    LET a == AuthInterceptor(callers[c].method, callers[c].md) IN
    /\ agg.up
    /\ callers[c].pc = "auth"
    /\ callers' = [callers EXCEPT ![c] =
          CASE a.next = "handler" -> [@ EXCEPT !.pc = "handler", !.userCtx = a.userCtx]
            [] a.next = "return"  -> [@ EXCEPT !.pc = "metricsReturn", !.code = a.code]
            [] a.next = "panic"   -> [@ EXCEPT !.pc = "metricsReturn",
                                               !.panic = "AuthInterceptor"]]
    /\ UNCHANGED <<now, agg, rows, last>>

\* the handler runs: it returns, or it panics on the way
HandlerStep(c, panics) ==
    LET h == handlerOutcome(callers[c].method, callers[c].userCtx, callers[c].id) IN
    /\ agg.up
    /\ callers[c].pc = "handler"
    /\ callers' = [callers EXCEPT ![c] =
          IF panics
          THEN [@ EXCEPT !.pc = "metricsReturn", !.handled = TRUE, !.panic = "handler"]
          ELSE [@ EXCEPT !.pc = "metricsReturn", !.handled = TRUE, !.code = h.code,
                         !.resp = h.resp, !.tenant = h.tenant]]
    /\ UNCHANGED <<now, agg, rows, last>>

\* MetricsInterceptor's Dec as a plain statement after the handler's return
metricsAfterNoDefer(server, r) ==
    IF r.panic # "" THEN server
    ELSE [server EXCEPT !.grpcRequestDuration[r.method] = @ + 1,
                        !.grpcRequestsTotal[<<r.method, r.code>>] = @ + 1,
                        !.grpcActiveRequests[r.method] = @ - 1]

\* MetricsInterceptor from the handler's return on: Observe and the counter
\* when the handler returned, the deferred Dec in every case
metricsAfter(server, r) ==
    IF r.panic # "" THEN [server EXCEPT !.grpcActiveRequests[r.method] = @ - 1]
    ELSE [server EXCEPT !.grpcRequestDuration[r.method] = @ + 1,
                        !.grpcRequestsTotal[<<r.method, r.code>>] = @ + 1,
                        !.grpcActiveRequests[r.method] = @ - 1]

\* a panic passes LoggingInterceptor, which has no deferred function
MetricsReturn(c) ==
    /\ agg.up
    /\ callers[c].pc = "metricsReturn"
    /\ agg' = metricsAfter(agg, callers[c])
    /\ callers' = [callers EXCEPT ![c] =
          [@ EXCEPT !.pc = IF callers[c].panic # "" THEN "recoveryReturn"
                           ELSE "loggingReturn"]]
    /\ UNCHANGED <<now, rows, last>>

\* LoggingInterceptor from the handler's return on
LoggingReturn(c) ==
    /\ agg.up
    /\ callers[c].pc = "loggingReturn"
    /\ callers' = [callers EXCEPT ![c] = [@ EXCEPT !.pc = "recoveryReturn"]]
    /\ UNCHANGED <<now, agg, rows, last>>

\* a deferred function that does not call recover: the panic leaves the
\* goroutine and the process ends
recoveredNot(r) == [r EXCEPT !.pc = "crashed"]

\* RecoveryInterceptor's deferred function
recovered(r) ==
    IF r.panic # "" THEN [r EXCEPT !.pc = "done", !.code = "Internal", !.resp = NoTodo]
    ELSE [r EXCEPT !.pc = "done"]

RecoveryReturn(c) ==
    /\ agg.up
    /\ callers[c].pc = "recoveryReturn"
    /\ callers' = [callers EXCEPT ![c] = recovered(@)]
    /\ agg' = [agg EXCEPT !.up = recovered(callers[c]).pc # "crashed"]
    /\ UNCHANGED <<now, rows, last>>

InitChain ==
    /\ now = 0
    /\ agg = NoServer
    /\ rows = CreateOn(NoRows, FreshTodo("id1", "t1")).rows
    /\ last = NoCall
    /\ callers = [c \in Callers |-> NoChainRequest]

NextChain ==
    \/ \E c \in Callers, req \in ChainRequests : RecoveryEnter(c, req)
    \/ \E c \in Callers : LoggingEnter(c)
    \/ \E c \in Callers : MetricsEnter(c)
    \/ \E c \in Callers : AuthStep(c)
    \/ \E c \in Callers, panics \in BOOLEAN : HandlerStep(c, panics)
    \/ \E c \in Callers : MetricsReturn(c)
    \/ \E c \in Callers : LoggingReturn(c)
    \/ \E c \in Callers : RecoveryReturn(c)

SpecChain == InitChain /\ [][NextChain]_vars

---------------------------------------------------------------------------
(* Claims about the interceptor chain, checked under SpecChain             *)

\* the request carries metadata with an authorization header that starts
\* with "Bearer " and goes on with a token that is signed with the server's
\* secret by an HMAC method and has not expired
CarriesValidBearer(md) ==
    /\ md.present
    /\ Len(md.authorization) > 0
    /\ md.authorization[1].prefix = "Bearer "
    /\ Len(md.authorization[1].token) = 1
    /\ LET token == md.authorization[1].token[1]
       IN /\ token.wellFormed
          /\ token.alg \in {"HS256", "HS384", "HS512"}
          /\ token.key = JWTSecret
          /\ ~token.expired

PastAuth(r) == r.pc \in {"handler", "metricsReturn", "loggingReturn", "recoveryReturn", "done"}

\* C37: for every method but the public health methods the handler runs only
\* after AuthInterceptor accepted a Bearer token and attached a user context
\* made of the token's user id, tenant id and roles; a request without
\* metadata, without authorization header, with a header without the Bearer
\* prefix or with an invalid token is answered Unauthenticated and never
\* reaches the handler; and the tenant of the handler's repository call, and
\* of the task it returns, is the one of that user context.
C37_HandlerBehindAuth ==
    \A c \in Callers :
        LET r == callers[c] IN
        (r.pc # "idle" /\ r.method \notin publicMethods) =>
            /\ (r.pc = "handler" \/ r.handled) =>
                  /\ CarriesValidBearer(r.md)
                  /\ r.userCtx # <<>>
                  /\ LET claims == r.md.authorization[1].token[1].claims
                     IN /\ r.userCtx[1].UserID = claims.user_id[1].val
                        /\ r.userCtx[1].TenantID = claims.tenant_id[1].val
                        /\ \A i \in 1..Len(r.userCtx[1].Roles) :
                               \E j \in 1..Len(claims.roles[1].val) :
                                   claims.roles[1].val[j].val = r.userCtx[1].Roles[i]
            /\ (PastAuth(r) /\ ~CarriesValidBearer(r.md)) =>
                  /\ r.pc # "handler"
                  /\ ~r.handled
                  /\ r.code = "Unauthenticated"
                  /\ r.resp = NoTodo
            /\ (r.handled /\ r.tenant # "") => r.tenant = r.userCtx[1].TenantID
            /\ r.resp # NoTodo =>
                  /\ r.resp.TenantID = r.userCtx[1].TenantID
                  /\ r.code = "OK"

\* one GetTodo request with a valid Bearer token has been answered with the
\* task of its tenant, another with the same token but no Bearer prefix has
\* been answered Unauthenticated without reaching the handler
C37_Witness ==
    /\ callers["c1"].pc = "done"
    /\ callers["c1"].method = GetTodoMethod
    /\ callers["c1"].handled
    /\ callers["c1"].code = "OK"
    /\ callers["c1"].resp # NoTodo
    /\ callers["c2"].pc = "done"
    /\ callers["c2"].method = GetTodoMethod
    /\ callers["c2"].md = Metadata(<<Bare(GoodToken)>>)
    /\ callers["c2"].code = "Unauthenticated"
    /\ ~callers["c2"].handled

\* C38: a panic raised in an inner interceptor or in the handler is turned
\* into an Internal error response for that request by RecoveryInterceptor,
\* the outermost of the chain: the process stays up, the request ends with
\* Internal and no response message, and the step that recovers leaves every
\* other request as it was.
C38_PanicBecomesInternal ==
    /\ [](/\ agg.up
          /\ \A c \in Callers :
                /\ callers[c].pc \in {"idle", "logging", "metrics", "auth", "handler",
                                      "metricsReturn", "loggingReturn",
                                      "recoveryReturn", "done"}
                /\ (callers[c].pc = "done" /\ callers[c].panic # "") =>
                      /\ callers[c].code = "Internal"
                      /\ callers[c].resp = NoTodo
                /\ (callers[c].pc = "done" /\ callers[c].panic = "") =>
                      callers[c].code \in ChainCodes)
    /\ [][\A c \in Callers :
             (callers[c].pc = "recoveryReturn" /\ callers'[c] # callers[c]) =>
                 /\ callers'[c].pc = "done"
                 /\ agg'.up
                 /\ \A d \in Callers \ {c} : callers'[d] = callers[d]]_vars

\* a request whose token lacks the tenant claim made AuthInterceptor panic
\* and has been answered Internal; the other caller's request, taken by the
\* same server, has been answered with the task
C38_Witness ==
    /\ agg.up
    /\ callers["c1"].pc = "done"
    /\ callers["c1"].panic = "AuthInterceptor"
    /\ callers["c1"].code = "Internal"
    /\ callers["c2"].pc = "done"
    /\ callers["c2"].panic = ""
    /\ callers["c2"].handled
    /\ callers["c2"].code = "OK"
    /\ agg.arrived = 3

\* the requests of a method that MetricsInterceptor has counted in and not
\* yet counted out
InsideMetrics(mth) ==
    {c \in Callers : callers[c].method = mth
                       /\ callers[c].pc \in {"auth", "handler", "metricsReturn"}}

\* C39: under any interleaving the grpc_active_requests gauge of a method
\* equals the number of requests of that method between MetricsInterceptor's
\* Inc and its deferred Dec; every request raises it once before the handler
\* and lowers it once after it, also when the handler returns an error or
\* panics, so it is never negative and is back at zero when all requests have
\* finished.
C39_ActiveRequestsGauge ==
    /\ [](\A mth \in Methods :
             /\ agg.grpcActiveRequests[mth] = Cardinality(InsideMetrics(mth))
             /\ agg.grpcActiveRequests[mth] >= 0
             /\ (\A c \in Callers : callers[c].pc \in {"idle", "done"}) =>
                    agg.grpcActiveRequests[mth] = 0)
    /\ [][\A c \in Callers :
             LET mth == callers[c].method
                 others == [x \in Methods \ {mth} |-> agg.grpcActiveRequests[x]]
                 others2 == [x \in Methods \ {mth} |-> agg'.grpcActiveRequests[x]]
             IN /\ (callers[c].pc = "metrics" /\ callers'[c].pc # "metrics") =>
                       /\ agg'.grpcActiveRequests[mth] = agg.grpcActiveRequests[mth] + 1
                       /\ others2 = others
                /\ (callers[c].pc = "metricsReturn" /\ callers'[c].pc # "metricsReturn") =>
                       /\ agg'.grpcActiveRequests[mth] = agg.grpcActiveRequests[mth] - 1
                       /\ others2 = others
                /\ (\A d \in Callers :
                       callers[d].pc \in {"metrics", "metricsReturn"} =>
                           callers'[d].pc = callers[d].pc) =>
                       agg'.grpcActiveRequests = agg.grpcActiveRequests]_vars

\* a request whose handler panicked has been answered and one whose handler
\* returned an error has been counted, while a request of the same method is
\* inside the handler: the gauge of the method stands at 1
C39_Witness ==
    /\ callers["c1"].pc = "done"
    /\ callers["c1"].panic = "handler"
    /\ callers["c2"].pc = "handler"
    /\ callers["c2"].method = callers["c1"].method
    /\ callers["c1"].method = GetTodoMethod
    /\ agg.grpcActiveRequests[GetTodoMethod] = 1
    /\ agg.grpcRequestsTotal[<<GetTodoMethod, "NotFound">>] = 1

=============================================================================
